---------------------------- MODULE Spec2Model ----------------------------
(***************************************************************************)
(* A model of the inspector_protocol encoding library: the CBOR primitives *)
(* and the CBOR reader of binary_encoding.cc, the JSON parser of           *)
(* json_parser.cc, and the two event handlers (the JSON-to-CBOR encoder    *)
(* and the JSON writer).                                                   *)
(*                                                                         *)
(* Integers of the checker are 32 bit wide, so a uint64_t / int64_t /      *)
(* double bit pattern is carried as its eight base-256 digits, least       *)
(* significant digit first (value = d[1] + 256*d[2] + ... + 256^7*d[8]).   *)
(* int32_t values are plain integers.  A byte vector is a sequence of      *)
(* 0..255; a span is a record [d |-> the underlying bytes, p |-> the       *)
(* number of bytes in front of the span's first element].                  *)
(***************************************************************************)
EXTENDS Integers, Sequences, FiniteSets, TLC

\* ------------------------------------------------------------------------
\* Bounds of the model (not program constants).
\* ------------------------------------------------------------------------

\* A sampled 64 bit value has at most this many non-zero base-256 digits.
MaxNonZeroDigits == 2

\* ------------------------------------------------------------------------
\* 64 bit values as base-256 digits.
\* ------------------------------------------------------------------------

Zero64 == <<0, 0, 0, 0, 0, 0, 0, 0>>

AllOnes64 == <<255, 255, 255, 255, 255, 255, 255, 255>>

\* uint64_t(n) for an int32_t n >= 0.
U64FromInt(n) ==
  <<n % 256, (n \div 256) % 256, (n \div 65536) % 256, (n \div 16777216) % 256,
    0, 0, 0, 0>>

\* a < b for two uint64_t.
U64Less(a, b) ==
  \E i \in 1..8 : a[i] < b[i] /\ \A j \in (i + 1)..8 : a[j] = b[j]

U64LessEq(a, b) == a = b \/ U64Less(a, b)

\* std::numeric_limits<uint8_t / uint16_t / uint32_t / int32_t>::max() as uint64_t.
U8Max == <<255, 0, 0, 0, 0, 0, 0, 0>>

U16Max == <<255, 255, 0, 0, 0, 0, 0, 0>>

U32Max == <<255, 255, 255, 255, 0, 0, 0, 0>>

Int32Max64 == <<255, 255, 255, 127, 0, 0, 0, 0>>

Int32Max == 2147483647

Int32Min == -2147483647 - 1

\* a + b modulo 2^64, digit by digit with carry.
RECURSIVE AddDigits(_, _, _, _)
AddDigits(a, b, i, carry) ==
  IF i > 8 THEN <<>>
  ELSE LET s == a[i] + b[i] + carry
       IN  <<s % 256>> \o AddDigits(a, b, i + 1, s \div 256)

Add64(a, b) == AddDigits(a, b, 1, 0)

\* Two's complement negation of an int64_t pattern: -a.
Neg64(a) == Add64([i \in 1..8 |-> 255 - a[i]], U64FromInt(1))

\* The int64_t pattern is negative.
IsNeg64(a) == a[8] >= 128

\* a >= std::numeric_limits<int32_t>::min() for an int64_t pattern a.
Int64GeInt32Min(a) ==
  \/ ~IsNeg64(a)
  \/ /\ \A i \in 5..8 : a[i] = 255
     /\ a[4] >= 128

\* The narrowing conversion int32_t(a) of a 64 bit pattern: its low 32 bits,
\* read as two's complement.
ToInt32(a) ==
  a[1] + 256 * a[2] + 65536 * a[3]
    + 16777216 * (IF a[4] >= 128 THEN a[4] - 256 ELSE a[4])

\* ------------------------------------------------------------------------
\* Spans.
\* ------------------------------------------------------------------------

MakeSpan(data) == [d |-> data, p |-> 0]

SpanSize(s) == Len(s.d) - s.p

SpanEmpty(s) == SpanSize(s) = 0

\* s[i], zero based.
SpanAt(s, i) == s.d[s.p + i + 1]

\* s.subspan(k)
Subspan(s, k) == [d |-> s.d, p |-> s.p + k]

\* ------------------------------------------------------------------------
\* CBOR constants (RFC 7049).
\* ------------------------------------------------------------------------

MT_UNSIGNED == 0

MT_NEGATIVE == 1

MT_BYTE_STRING == 2

MT_STRING == 3

MT_ARRAY == 4

MT_MAP == 5

MT_TAG == 6

MT_SIMPLE_VALUE == 7

kMajorTypeBitShift == 5

kAdditionalInformationMask == 31

kAdditionalInformation1Byte == 24

kAdditionalInformation2Bytes == 25

kAdditionalInformation4Bytes == 26

kAdditionalInformation8Bytes == 27

\* (uint8_t(type) << kMajorTypeBitShift) | (additional_info & kAdditionalInformationMask)
EncodeInitialByte(type, additional_info) ==
  ((type * 32) % 256) + (additional_info % 32)

\* Mutant: true is written as false is.
kEncodedTrueAsFalse == EncodeInitialByte(MT_SIMPLE_VALUE, 20)

kEncodedTrue == EncodeInitialByte(MT_SIMPLE_VALUE, 21)

kEncodedFalse == EncodeInitialByte(MT_SIMPLE_VALUE, 20)

kEncodedNull == EncodeInitialByte(MT_SIMPLE_VALUE, 22)

kInitialByteForDouble == EncodeInitialByte(MT_SIMPLE_VALUE, 27)

kInitialByteIndefiniteLengthArray == EncodeInitialByte(MT_ARRAY, 31)

kInitialByteIndefiniteLengthMap == EncodeInitialByte(MT_MAP, 31)

kStopByte == EncodeInitialByte(MT_SIMPLE_VALUE, 31)

\* ------------------------------------------------------------------------
\* Item starts.
\* ------------------------------------------------------------------------

\* 0xff & v >> (shift_bytes * 8)
ByteOf(v, shift_bytes) == v[shift_bytes + 1]

\* Mutant: the bytes are written least significant byte first.
WriteBytesLeastSignificantByteFirst(size, v, out) ==
  out \o [k \in 1..size |-> ByteOf(v, k - 1)]

\* WriteBytesMostSignificantByteFirst<T>(v, out), size = sizeof(T): the bytes
\* of v from shift_bytes = size - 1 down to 0.
WriteBytesMostSignificantByteFirst(size, v, out) ==
  out \o [k \in 1..size |-> ByteOf(v, size - k)]

WriteItemStart(type, value, encoded) ==
  IF U64Less(value, U64FromInt(24))
    THEN Append(encoded, EncodeInitialByte(type, ByteOf(value, 0)))
  ELSE IF U64LessEq(value, U8Max)
    THEN Append(Append(encoded,
                       EncodeInitialByte(type, kAdditionalInformation1Byte)),
                ByteOf(value, 0))
  ELSE IF U64LessEq(value, U16Max)
    THEN WriteBytesMostSignificantByteFirst(2, value,
           Append(encoded, EncodeInitialByte(type, kAdditionalInformation2Bytes)))
  ELSE IF U64LessEq(value, U32Max)
    THEN WriteBytesMostSignificantByteFirst(4, value,
           Append(encoded, EncodeInitialByte(type, kAdditionalInformation4Bytes)))
  ELSE WriteBytesMostSignificantByteFirst(8, value,
           Append(encoded, EncodeInitialByte(type, kAdditionalInformation8Bytes)))

\* Mutant: the bytes are read least significant byte first.
ReadBytesLeastSignificantByteFirst(size, in) ==
  [i \in 1..8 |-> IF i <= size THEN SpanAt(in, i - 1) ELSE 0]

\* ReadBytesMostSignificantByteFirst<T>(in), size = sizeof(T):
\* result |= T(in[size - 1 - shift_bytes]) << (shift_bytes * 8).
ReadBytesMostSignificantByteFirst(size, in) ==
  [i \in 1..8 |-> IF i <= size THEN SpanAt(in, size - 1 - (i - 1)) ELSE 0]

\* ReadItemStart(&bytes, &type, &value): [ok, type, value, bytes]; when ok is
\* FALSE the span is the caller's, unchanged.
ReadItemStartFail(bytes) ==
  [ok |-> FALSE, type |-> 0, value |-> Zero64, bytes |-> bytes]

ReadItemStartSized(bytes, type, size) ==
  IF SpanSize(bytes) < 1 + size THEN ReadItemStartFail(bytes)
  ELSE [ok |-> TRUE, type |-> type,
        value |-> ReadBytesMostSignificantByteFirst(size, Subspan(bytes, 1)),
        bytes |-> Subspan(bytes, 1 + size)]

ReadItemStart(bytes) ==
  IF SpanEmpty(bytes) THEN ReadItemStartFail(bytes)
  ELSE LET initial_byte == SpanAt(bytes, 0)
           type == initial_byte \div 32
           additional_information == initial_byte % 32
       IN  IF additional_information < 24
             THEN [ok |-> TRUE, type |-> type,
                   value |-> U64FromInt(additional_information),
                   bytes |-> Subspan(bytes, 1)]
           ELSE IF additional_information = kAdditionalInformation1Byte
             THEN ReadItemStartSized(bytes, type, 1)
           ELSE IF additional_information = kAdditionalInformation2Bytes
             THEN ReadItemStartSized(bytes, type, 2)
           ELSE IF additional_information = kAdditionalInformation4Bytes
             THEN ReadItemStartSized(bytes, type, 4)
           ELSE IF additional_information = kAdditionalInformation8Bytes
             THEN ReadItemStartSized(bytes, type, 8)
           ELSE ReadItemStartFail(bytes)


\* ------------------------------------------------------------------------
\* Unsigned and signed integers.
\* ------------------------------------------------------------------------

EncodeUnsigned(value, out) == WriteItemStart(MT_UNSIGNED, value, out)

\* Mutant: the item start is read off the caller's span, so a call that
\* fails after it has moved the span on.
DecodeFailAfterItemStart(bytes, value) ==
  [ok |-> FALSE, value |-> value,
   bytes |-> IF SpanEmpty(bytes) THEN bytes ELSE Subspan(bytes, 1)]

\* A decoder's result: [ok, value, bytes]; a failed call leaves the caller's
\* span and value as they were.
DecodeFail(bytes, value) == [ok |-> FALSE, value |-> value, bytes |-> bytes]

\* DecodeUnsigned(&bytes, &value); value0 is the caller's value before the call.
DecodeUnsigned(bytes, value0) ==
  LET r == ReadItemStart(bytes)
  IN  IF ~r.ok THEN DecodeFail(bytes, value0)
      ELSE IF r.type # MT_UNSIGNED THEN DecodeFail(bytes, value0)
      ELSE [ok |-> TRUE, value |-> r.value, bytes |-> r.bytes]

\* internal::EncodeNegative(value, out), value < 0:
\* static_cast<uint64_t>(-(value + 1)).
EncodeNegative(value, out) ==
  WriteItemStart(MT_NEGATIVE, U64FromInt(-(value + 1)), out)

EncodeSigned(value, out) ==
  IF value >= 0 THEN EncodeUnsigned(U64FromInt(value), out)
  ELSE EncodeNegative(value, out)

\* Mutant: the "- 1" of the decoding is left out.
NegativeDecodedValueNoOffset(encoded_value) == Neg64(encoded_value)

\* -static_cast<int64_t>(encoded_value) - 1, in two's complement.
NegativeDecodedValue(encoded_value) == Add64(Neg64(encoded_value), AllOnes64)

\* static_cast<int64_t>(encoded_value) is INT64_MIN: negating it overflows, which
\* is undefined behaviour.
NegationOverflows(encoded_value) ==
  encoded_value = <<0, 0, 0, 0, 0, 0, 0, 128>>

\* DecodeSigned(&bytes, &value), with the signed overflow either wrapping
\* (wraps = TRUE) or making the comparison fail (wraps = FALSE).
DecodeSignedWith(bytes, value0, wraps) ==
  LET r == ReadItemStart(bytes)
  IN  IF ~r.ok THEN DecodeFail(bytes, value0)
      ELSE IF r.type = MT_UNSIGNED
        THEN IF U64LessEq(r.value, Int32Max64)
               THEN [ok |-> TRUE, value |-> ToInt32(r.value), bytes |-> r.bytes]
               ELSE DecodeFail(bytes, value0)
      ELSE IF r.type = MT_NEGATIVE
        THEN LET decoded_value == NegativeDecodedValue(r.value)
             IN  IF /\ Int64GeInt32Min(decoded_value)
                    /\ (NegationOverflows(r.value) => wraps)
                   THEN [ok |-> TRUE, value |-> ToInt32(decoded_value),
                         bytes |-> r.bytes]
                   ELSE DecodeFail(bytes, value0)
      ELSE DecodeFail(bytes, value0)

\* The results DecodeSigned can produce: one, except where the code's
\* behaviour is undefined.
DecodeSigned(bytes, value0) ==
  {DecodeSignedWith(bytes, value0, wraps) : wraps \in BOOLEAN}

\* ------------------------------------------------------------------------
\* UTF-16 strings and doubles.
\* ------------------------------------------------------------------------

\* EncodeUTF16String(in, out): the item start with in.size_bytes(), then each
\* code unit, least significant byte first.
\* Mutant: each code unit most significant byte first.
UTF16BytesMostSignificantByteFirst(in, k) ==
  [i \in 1..(2 * (Len(in) - k + 1)) |->
     LET two_bytes == in[k + (i - 1) \div 2]
     IN  IF i % 2 = 1 THEN (two_bytes \div 256) % 256 ELSE two_bytes % 256]

UTF16Bytes(in, k) ==
  [i \in 1..(2 * (Len(in) - k + 1)) |->
     LET two_bytes == in[k + (i - 1) \div 2]
     IN  IF i % 2 = 1 THEN two_bytes % 256 ELSE (two_bytes \div 256) % 256]

EncodeUTF16String(in, out) ==
  WriteItemStart(MT_BYTE_STRING, U64FromInt(2 * Len(in)), out) \o UTF16Bytes(in, 1)

\* DecodeUTF16String(&bytes, &str): [ok, value, bytes]; str is empty before
\* the call.
DecodeUTF16String(bytes) ==
  LET r == ReadItemStart(bytes)
  IN  IF ~r.ok THEN DecodeFail(bytes, <<>>)
      ELSE IF r.type # MT_BYTE_STRING THEN DecodeFail(bytes, <<>>)
      ELSE IF U64Less(U64FromInt(SpanSize(r.bytes)), r.value)
        THEN DecodeFail(bytes, <<>>)
      ELSE IF r.value[1] % 2 = 1 THEN DecodeFail(bytes, <<>>)
      ELSE LET num_bytes == ToInt32(r.value)
           IN  [ok |-> TRUE,
                value |-> [k \in 1..(num_bytes \div 2) |->
                             SpanAt(r.bytes, 2 * (k - 1) + 1) * 256
                               + SpanAt(r.bytes, 2 * (k - 1))],
                bytes |-> Subspan(r.bytes, num_bytes)]

\* 1 + sizeof(uint64_t)
kEncodedDoubleSize == 9

\* EncodeDouble(value, out); a double is its 64 bit pattern.
EncodeDouble(value, out) ==
  WriteBytesMostSignificantByteFirst(8, value, Append(out, kInitialByteForDouble))

\* Mutant: the initial byte is not looked at.
DecodeDoubleAnyInitialByte(bytes, value0) ==
  IF SpanSize(bytes) < kEncodedDoubleSize THEN DecodeFail(bytes, value0)
  ELSE [ok |-> TRUE,
        value |-> ReadBytesMostSignificantByteFirst(8, Subspan(bytes, 1)),
        bytes |-> Subspan(bytes, kEncodedDoubleSize)]

\* DecodeDouble(&bytes, &value)
DecodeDouble(bytes, value0) ==
  IF SpanSize(bytes) < kEncodedDoubleSize THEN DecodeFail(bytes, value0)
  ELSE IF SpanAt(bytes, 0) # kInitialByteForDouble THEN DecodeFail(bytes, value0)
  ELSE [ok |-> TRUE,
        value |-> ReadBytesMostSignificantByteFirst(8, Subspan(bytes, 1)),
        bytes |-> Subspan(bytes, kEncodedDoubleSize)]

\* ------------------------------------------------------------------------
\* Status and the events of JsonParserHandler.  An event is the tuple of
\* its kind and its payload: the code units of a String, the value of an
\* Int, the eight digits of a Double's bit pattern, 1 / 0 of a Bool, the
\* error and pos of an Error.
\* ------------------------------------------------------------------------

OK == 0

JSON_PARSER_STRING_LITERAL_EXPECTED == 9

JSON_PARSER_COMMA_OR_OBJECT_END_EXPECTED == 12

JSON_PARSER_STACK_LIMIT_EXCEEDED == 2

BINARY_ENCODING_NO_INPUT == 14

BINARY_ENCODING_INVALID_START_BYTE == 15

BINARY_ENCODING_UNEXPECTED_EOF_EXPECTED_VALUE == 16

BINARY_ENCODING_UNEXPECTED_EOF_IN_ARRAY == 17

BINARY_ENCODING_UNEXPECTED_EOF_IN_MAP == 18

BINARY_ENCODING_INVALID_MAP_KEY == 20

BINARY_ENCODING_STACK_LIMIT_EXCEEDED == 21

BINARY_ENCODING_UNSUPPORTED_VALUE == 22

BINARY_ENCODING_INVALID_STRING16 == 23

BINARY_ENCODING_INVALID_DOUBLE == 26

BINARY_ENCODING_INVALID_SIGNED == 27

\* Status::npos()
npos == -1

\* Status(): {Error::OK, npos()}
DefaultStatus == [error |-> OK, pos |-> npos]

\* The kind and the payload of an event.
Kind(ev) == ev[1]

Arg(ev) == Tail(ev)

ObjectBeginEvent == <<"ObjectBegin">>

ObjectEndEvent == <<"ObjectEnd">>

ArrayBeginEvent == <<"ArrayBegin">>

ArrayEndEvent == <<"ArrayEnd">>

StringEvent(chars) == <<"String">> \o chars

DoubleEvent(value) == <<"Double">> \o value

IntEvent(value) == <<"Int", value>>

BoolEvent(value) == <<"Bool", IF value THEN 1 ELSE 0>>

NullEvent == <<"Null">>

ErrorEvent(status) == <<"Error", status.error, status.pos>>

\* ------------------------------------------------------------------------
\* JsonToBinaryEncoder: [out_, status_].
\* ------------------------------------------------------------------------

\* JsonToBinaryEncoder(out, status): *status_ = Status(); out is the caller's.
NewJsonToBinaryEncoder(out) == [out_ |-> out, status_ |-> DefaultStatus]

\* Mutant: HandleString writes the code units without the item start.
EncoderHandleBareStrings(e, ev) ==
  CASE Kind(ev) = "ObjectBegin" ->
         [e EXCEPT !.out_ = Append(@, kInitialByteIndefiniteLengthMap)]
    [] Kind(ev) = "ObjectEnd" -> [e EXCEPT !.out_ = Append(@, kStopByte)]
    [] Kind(ev) = "ArrayBegin" ->
         [e EXCEPT !.out_ = Append(@, kInitialByteIndefiniteLengthArray)]
    [] Kind(ev) = "ArrayEnd" -> [e EXCEPT !.out_ = Append(@, kStopByte)]
    [] Kind(ev) = "String" -> [e EXCEPT !.out_ = @ \o UTF16Bytes(Arg(ev), 1)]
    [] Kind(ev) = "Double" -> [e EXCEPT !.out_ = EncodeDouble(Arg(ev), @)]
    [] Kind(ev) = "Int" -> [e EXCEPT !.out_ = EncodeSigned(Arg(ev)[1], @)]
    [] Kind(ev) = "Bool" ->
         [e EXCEPT !.out_ = Append(@, IF Arg(ev)[1] = 1 THEN kEncodedTrue
                                      ELSE kEncodedFalse)]
    [] Kind(ev) = "Null" -> [e EXCEPT !.out_ = Append(@, kEncodedNull)]
    [] Kind(ev) = "Error" ->
         [out_ |-> <<>>, status_ |-> [error |-> Arg(ev)[1], pos |-> Arg(ev)[2]]]

\* One event handled by the encoder e.
EncoderHandle(e, ev) ==
  CASE Kind(ev) = "ObjectBegin" ->
         [e EXCEPT !.out_ = Append(@, kInitialByteIndefiniteLengthMap)]
    [] Kind(ev) = "ObjectEnd" -> [e EXCEPT !.out_ = Append(@, kStopByte)]
    [] Kind(ev) = "ArrayBegin" ->
         [e EXCEPT !.out_ = Append(@, kInitialByteIndefiniteLengthArray)]
    [] Kind(ev) = "ArrayEnd" -> [e EXCEPT !.out_ = Append(@, kStopByte)]
    [] Kind(ev) = "String" -> [e EXCEPT !.out_ = EncodeUTF16String(Arg(ev), @)]
    [] Kind(ev) = "Double" -> [e EXCEPT !.out_ = EncodeDouble(Arg(ev), @)]
    [] Kind(ev) = "Int" -> [e EXCEPT !.out_ = EncodeSigned(Arg(ev)[1], @)]
    [] Kind(ev) = "Bool" ->
         [e EXCEPT !.out_ = Append(@, IF Arg(ev)[1] = 1 THEN kEncodedTrue
                                      ELSE kEncodedFalse)]
    [] Kind(ev) = "Null" -> [e EXCEPT !.out_ = Append(@, kEncodedNull)]
    [] Kind(ev) = "Error" ->
         [out_ |-> <<>>, status_ |-> [error |-> Arg(ev)[1], pos |-> Arg(ev)[2]]]

\* ------------------------------------------------------------------------
\* The JSON writer: [out_, error_, state_].  Characters are their codes;
\* state_ is the stack of State instances, top last.
\* ------------------------------------------------------------------------

\* Doubles, as the digits of their bit patterns (least significant first).
DoubleZero == Zero64

DoubleHalf == <<0, 0, 0, 0, 0, 0, 224, 63>>

DoubleOne == <<0, 0, 0, 0, 0, 0, 240, 63>>

DoublePi == <<111, 18, 131, 192, 202, 33, 9, 64>>

DoubleInt32Max == <<0, 0, 192, 255, 255, 255, 223, 65>>

DoubleTwoTo31 == <<0, 0, 0, 0, 0, 0, 224, 65>>

DoubleInt32Min == <<0, 0, 0, 0, 0, 0, 224, 193>>

DoubleNaN == <<0, 0, 0, 0, 0, 0, 248, 127>>

\* SystemDeps::DToStr.  LinuxDeps::DToStr streams the value with the default
\* precision of six significant digits; the text is tabulated for the
\* doubles above, and every other double gets the text of an unknown "?".
DToStr(value) ==
  CASE value = DoubleZero -> <<48>>
    [] value = DoubleHalf -> <<48, 46, 53>>
    [] value = DoubleOne -> <<49>>
    [] value = DoublePi -> <<51, 46, 49, 52, 49, 53>>
    [] value = DoubleInt32Max -> <<50, 46, 49, 52, 55, 52, 56, 101, 43, 48, 57>>
    [] value = DoubleTwoTo31 -> <<50, 46, 49, 52, 55, 52, 56, 101, 43, 48, 57>>
    [] value = DoubleInt32Min ->
         <<45, 50, 46, 49, 52, 55, 52, 56, 101, 43, 48, 57>>
    [] value = DoubleNaN -> <<110, 97, 110>>
    [] OTHER -> <<63>>

\* The decimal digits of n >= 0.
RECURSIVE UnsignedToString(_)
UnsignedToString(n) ==
  IF n < 10 THEN <<48 + n>>
  ELSE Append(UnsignedToString(n \div 10), 48 + (n % 10))

\* std::to_string(int32_t)
to_string(value) ==
  IF value >= 0 THEN UnsignedToString(value)
  ELSE LET last == (10 - (value % 10)) % 10
           rest == -((value + last) \div 10)
       IN  <<45>> \o (IF rest = 0 THEN <<>> ELSE UnsignedToString(rest))
                  \o <<48 + last>>

\* four_bits + ((four_bits <= 9) ? '0' : ('a' - 10))
HexChar(four_bits) == IF four_bits <= 9 THEN 48 + four_bits ELSE 87 + four_bits

\* Mutant: the least significant chunk first.
PrintHexLeastSignificantFirst(value, out) ==
  out \o <<HexChar(value % 16), HexChar((value \div 16) % 16),
           HexChar((value \div 256) % 16), HexChar((value \div 4096) % 16)>>

\* PrintHex(value, out): four hex digits, most significant chunk first.
PrintHex(value, out) ==
  out \o <<HexChar((value \div 4096) % 16), HexChar((value \div 256) % 16),
           HexChar((value \div 16) % 16), HexChar(value % 16)>>

\* The text HandleString appends for one code unit.
EscapeChar(ch) ==
  CASE ch = 34 -> <<92, 34>>
    [] ch = 92 -> <<92, 92>>
    [] ch = 8 -> <<92, 98>>
    [] ch = 12 -> <<92, 102>>
    [] ch = 10 -> <<92, 110>>
    [] ch = 13 -> <<92, 114>>
    [] ch = 9 -> <<92, 116>>
    [] OTHER -> IF ch >= 32 /\ ch <= 126 THEN <<ch>>
                ELSE PrintHex(ch, <<92, 117>>)

RECURSIVE EscapeChars(_, _)
EscapeChars(chars, k) ==
  IF k > Len(chars) THEN <<>>
  ELSE EscapeChar(chars[k]) \o EscapeChars(chars, k + 1)

\* State(container): size_ = 0.
NewState(container) == [container_ |-> container, size_ |-> 0]

\* Mutant: the delimiter is a comma whenever the size is odd.
StartElementCommaWhenOdd(w) ==
  LET top == w.state_[Len(w.state_)]
      delim == IF top.size_ % 2 = 0 /\ top.container_ = "OBJECT" THEN 58 ELSE 44
  IN  [w EXCEPT !.out_ = IF top.size_ # 0 THEN Append(@, delim) ELSE @,
                !.state_[Len(w.state_)].size_ = @ + 1]

\* State::StartElement on the top of w.state_.
StartElement(w) ==
  LET top == w.state_[Len(w.state_)]
      delim == IF top.size_ % 2 = 0 \/ top.container_ = "ARRAY" THEN 44 ELSE 58
  IN  [w EXCEPT !.out_ = IF top.size_ # 0 THEN Append(@, delim) ELSE @,
                !.state_[Len(w.state_)].size_ = @ + 1]

\* Writer(deps, out, error): *error_ = false, one NONE state; out is the
\* caller's string.
NewJsonWriter(out) ==
  [out_ |-> out, error_ |-> FALSE, state_ |-> <<NewState("NONE")>>]

\* The asserts of the writer: what has to hold for it to handle ev.
WriterAsserts(w, ev) ==
  LET top == w.state_[Len(w.state_)]
  IN  \/ w.error_
      \/ Kind(ev) = "Error"
      \/ /\ Kind(ev) = "ObjectEnd"
         /\ Len(w.state_) >= 2 /\ top.container_ = "OBJECT"
      \/ /\ Kind(ev) = "ArrayEnd"
         /\ Len(w.state_) >= 2 /\ top.container_ = "ARRAY"
      \/ /\ Kind(ev) \notin {"ObjectEnd", "ArrayEnd"}
         /\ top.container_ # "NONE" \/ top.size_ = 0

\* Start an element, push a State if a container begins, append text.
WriterAppend(w, push, text) ==
  LET started == StartElement(w)
  IN  [started EXCEPT !.state_ = @ \o push, !.out_ = @ \o text]

\* One event handled by the writer w.
WriterHandle(w, ev) ==
  IF Kind(ev) = "Error" THEN [w EXCEPT !.error_ = TRUE]
  ELSE IF w.error_ THEN w
  ELSE CASE Kind(ev) = "ObjectBegin" ->
              WriterAppend(w, <<NewState("OBJECT")>>, <<123>>)
         [] Kind(ev) = "ObjectEnd" ->
              [w EXCEPT !.state_ = SubSeq(@, 1, Len(@) - 1),
                        !.out_ = Append(@, 125)]
         [] Kind(ev) = "ArrayBegin" ->
              WriterAppend(w, <<NewState("ARRAY")>>, <<91>>)
         [] Kind(ev) = "ArrayEnd" ->
              [w EXCEPT !.state_ = SubSeq(@, 1, Len(@) - 1),
                        !.out_ = Append(@, 93)]
         [] Kind(ev) = "String" ->
              WriterAppend(w, <<>>, <<34>> \o EscapeChars(Arg(ev), 1) \o <<34>>)
         [] Kind(ev) = "Double" -> WriterAppend(w, <<>>, DToStr(Arg(ev)))
         [] Kind(ev) = "Int" -> WriterAppend(w, <<>>, to_string(Arg(ev)[1]))
         [] Kind(ev) = "Bool" ->
              WriterAppend(w, <<>>, IF Arg(ev)[1] = 1 THEN <<116, 114, 117, 101>>
                                    ELSE <<102, 97, 108, 115, 101>>)
         [] Kind(ev) = "Null" -> WriterAppend(w, <<>>, <<110, 117, 108, 108>>)

\* ------------------------------------------------------------------------
\* The JSON tokenizer of JsonParser<Char>.  A pointer into the input is its
\* offset from |start| of Parse; the input |in| is the sequence of code
\* units and |end| is Len(in).  Results are [ok, end]: what the function
\* returns and what it leaves in its out-parameter.
\* ------------------------------------------------------------------------

kNullString == <<110, 117, 108, 108>>

kTrueString == <<116, 114, 117, 101>>

kFalseString == <<102, 97, 108, 115, 101>>

\* *p for an offset p below Len(in).
CharAt(in, p) == in[p + 1]

TokenFail(p) == [ok |-> FALSE, end |-> p]

\* The while loop of ParseConstToken: both pointers move on before the
\* characters are compared.  k is the offset into |token|.
RECURSIVE ConstTokenLoop(_, _, _, _)
ConstTokenLoop(in, start, token, k) ==
  IF start < Len(in) /\ k < Len(token)
    THEN IF CharAt(in, start) = token[k + 1]
           THEN ConstTokenLoop(in, start + 1, token, k + 1)
           ELSE [start |-> start + 1, k |-> k + 1]
    ELSE [start |-> start, k |-> k]

ParseConstToken(in, start, token) ==
  LET r == ConstTokenLoop(in, start, token, 0)
  IN  IF r.k < Len(token) THEN TokenFail(start)
      ELSE [ok |-> TRUE, end |-> r.start]

IsDigit(c) == 48 <= c /\ c <= 57

\* The offset after the digits that begin at start.
RECURSIVE SkipDigits(_, _)
SkipDigits(in, start) ==
  IF start < Len(in) /\ IsDigit(CharAt(in, start)) THEN SkipDigits(in, start + 1)
  ELSE start

ReadInt(in, start, allow_leading_zeros) ==
  IF start = Len(in) THEN TokenFail(start)
  ELSE LET has_leading_zero == CharAt(in, start) = 48
           length == SkipDigits(in, start) - start
       IN  IF length = 0 THEN TokenFail(start)
           ELSE IF ~allow_leading_zeros /\ length > 1 /\ has_leading_zero
             THEN TokenFail(start)
           ELSE [ok |-> TRUE, end |-> start + length]

\* The optional exponent part; start is at the character c.
NumberExponent(in, start) ==
  IF CharAt(in, start) \in {101, 69}
    THEN IF start + 1 = Len(in) THEN TokenFail(start)
         ELSE LET signed == CharAt(in, start + 1) \in {45, 43}
                  digits == IF signed THEN start + 2 ELSE start + 1
              IN  IF signed /\ digits = Len(in) THEN TokenFail(start)
                  ELSE ReadInt(in, digits, TRUE)
    ELSE [ok |-> TRUE, end |-> start]

ParseNumberToken(in, start0) ==
  IF start0 = Len(in) THEN TokenFail(start0)
  ELSE LET start == IF CharAt(in, start0) = 45 THEN start0 + 1 ELSE start0
           int == ReadInt(in, start, FALSE)
       IN  IF ~int.ok THEN TokenFail(start0)
           ELSE IF int.end = Len(in) THEN int
           ELSE IF CharAt(in, int.end) = 46
             THEN LET frac == ReadInt(in, int.end + 1, TRUE)
                  IN  IF ~frac.ok THEN TokenFail(start0)
                      ELSE IF frac.end = Len(in) THEN frac
                      ELSE NumberExponent(in, frac.end)
           ELSE NumberExponent(in, int.end)

IsHexDigit(c) ==
  \/ 48 <= c /\ c <= 57
  \/ 97 <= c /\ c <= 102
  \/ 65 <= c /\ c <= 70

ReadHexDigits(in, start, digits) ==
  IF Len(in) - start < digits THEN TokenFail(start)
  ELSE IF \A i \in 0..(digits - 1) : IsHexDigit(CharAt(in, start + i))
    THEN [ok |-> TRUE, end |-> start + digits]
  ELSE TokenFail(start)

\* start is the offset after the opening quote.
RECURSIVE ParseStringToken(_, _)
ParseStringToken(in, start) ==
  IF start >= Len(in) THEN TokenFail(start)
  ELSE LET c == CharAt(in, start)
       IN  IF c = 92
             THEN IF start + 1 = Len(in) THEN TokenFail(start)
                  ELSE LET e == CharAt(in, start + 1)
                       IN  IF e \in {120, 117}
                             THEN LET hex == ReadHexDigits(in, start + 2,
                                               IF e = 120 THEN 2 ELSE 4)
                                  IN  IF hex.ok THEN ParseStringToken(in, hex.end)
                                      ELSE TokenFail(start)
                           ELSE IF e \in {92, 47, 98, 102, 110, 114, 116, 118, 34}
                             THEN ParseStringToken(in, start + 2)
                           ELSE TokenFail(start)
           ELSE IF c = 34 THEN [ok |-> TRUE, end |-> start + 1]
           ELSE ParseStringToken(in, start + 1)

\* The offset after the first newline at or after start, or the end.
RECURSIVE LineCommentEnd(_, _)
LineCommentEnd(in, start) ==
  IF start >= Len(in) THEN Len(in)
  ELSE IF CharAt(in, start) \in {10, 13} THEN start + 1
  ELSE LineCommentEnd(in, start + 1)

\* The for loop of the block comment; previous is the character before start.
RECURSIVE BlockCommentEnd(_, _, _)
BlockCommentEnd(in, start, previous) ==
  IF start >= Len(in) THEN TokenFail(start)
  ELSE IF previous = 42 /\ CharAt(in, start) = 47
    THEN [ok |-> TRUE, end |-> start + 1]
  ELSE BlockCommentEnd(in, start + 1, CharAt(in, start))

SkipComment(in, start) ==
  IF start = Len(in) THEN TokenFail(start)
  ELSE IF CharAt(in, start) # 47 \/ start + 1 >= Len(in) THEN TokenFail(start)
  ELSE IF CharAt(in, start + 1) = 47
    THEN [ok |-> TRUE, end |-> LineCommentEnd(in, start + 2)]
  ELSE IF CharAt(in, start + 1) = 42 THEN BlockCommentEnd(in, start + 2, 0)
  ELSE TokenFail(start)

IsSpaceOrNewLine(c) == c \in {32, 10, 11, 12, 13}

\* The offset left in *whitespace_end.
RECURSIVE SkipWhitespaceAndComments(_, _)
SkipWhitespaceAndComments(in, start) ==
  IF start >= Len(in) THEN start
  ELSE IF IsSpaceOrNewLine(CharAt(in, start))
    THEN SkipWhitespaceAndComments(in, start + 1)
  ELSE IF CharAt(in, start) = 47
    THEN LET comment == SkipComment(in, start)
         IN  IF comment.ok THEN SkipWhitespaceAndComments(in, comment.end)
             ELSE start
  ELSE start

\* [token, token_start, token_end] of ParseToken(start, end, &token_start,
\* &token_end).  No caller reads token_end after an InvalidToken; it is the
\* token's start then.
Token(token, token_start, token_end) ==
  [token |-> token, token_start |-> token_start, token_end |-> token_end]

TokenIf(r, token, start) ==
  IF r.ok THEN Token(token, start, r.end) ELSE Token("InvalidToken", start, start)

ParseToken(in, start0) ==
  LET start == SkipWhitespaceAndComments(in, start0)
  IN  IF start = Len(in) THEN Token("InvalidToken", start, start)
      ELSE LET c == CharAt(in, start)
           IN  CASE c = 110 ->
                      TokenIf(ParseConstToken(in, start, kNullString), "NullToken", start)
                 [] c = 116 ->
                      TokenIf(ParseConstToken(in, start, kTrueString), "BoolTrue", start)
                 [] c = 102 ->
                      TokenIf(ParseConstToken(in, start, kFalseString), "BoolFalse", start)
                 [] c = 91 -> Token("ArrayBegin", start, start + 1)
                 [] c = 93 -> Token("ArrayEnd", start, start + 1)
                 [] c = 44 -> Token("ListSeparator", start, start + 1)
                 [] c = 123 -> Token("ObjectBegin", start, start + 1)
                 [] c = 125 -> Token("ObjectEnd", start, start + 1)
                 [] c = 58 -> Token("ObjectPairSeparator", start, start + 1)
                 [] IsDigit(c) \/ c = 45 ->
                      TokenIf(ParseNumberToken(in, start), "Number", start)
                 [] c = 34 ->
                      TokenIf(ParseStringToken(in, start + 1), "StringLiteral", start)
                 [] OTHER -> Token("InvalidToken", start, start)

\* c - '0', c - 'A' + 10, c - 'a' + 10
\* Mutant: the letters are taken for upper case ones.
HexToIntUpperCaseOnly(c) ==
  IF 48 <= c /\ c <= 57 THEN c - 48 ELSE c - 55

HexToInt(c) ==
  IF 48 <= c /\ c <= 57 THEN c - 48
  ELSE IF 65 <= c /\ c <= 70 THEN c - 55
  ELSE c - 87

\* The character an escape letter stands for.
Unescaped(c) ==
  CASE c = 98 -> 8
    [] c = 102 -> 12
    [] c = 110 -> 10
    [] c = 114 -> 13
    [] c = 116 -> 9
    [] c = 118 -> 11
    [] OTHER -> c

\* DecodeString(start, end, &output): [ok, output]; output is empty before.
RECURSIVE DecodeStringLoop(_, _, _, _)
DecodeStringLoop(in, start, end, output) ==
  IF start >= end THEN [ok |-> TRUE, output |-> output]
  ELSE LET c == CharAt(in, start)
       IN  IF c # 92 THEN DecodeStringLoop(in, start + 1, end, Append(output, c))
           ELSE IF start + 1 = end THEN [ok |-> FALSE, output |-> output]
           ELSE LET e == CharAt(in, start + 1)
                IN  IF e = 120 THEN [ok |-> FALSE, output |-> output]
                    ELSE IF e = 117
                      THEN DecodeStringLoop(in, start + 6, end,
                             Append(output,
                               (HexToInt(CharAt(in, start + 2)) * 4096
                                + HexToInt(CharAt(in, start + 3)) * 256
                                + HexToInt(CharAt(in, start + 4)) * 16
                                + HexToInt(CharAt(in, start + 5))) % 65536))
                    ELSE IF e \in {34, 47, 92, 98, 102, 110, 114, 116, 118}
                      THEN DecodeStringLoop(in, start + 2, end,
                                            Append(output, Unescaped(e)))
                    ELSE [ok |-> FALSE, output |-> output]

DecodeString(in, start, end) ==
  IF start = end THEN [ok |-> TRUE, output |-> <<>>]
  ELSE IF start > end THEN [ok |-> FALSE, output |-> <<>>]
  ELSE DecodeStringLoop(in, start, end, <<>>)

\* ------------------------------------------------------------------------
\* Doubles in the number case of ParseValue.  A finite double is
\* (-1)^sign * 2^(exponent - 1023) * 1.fraction; Top31 is the leading one
\* and the upper 30 fraction bits, LowFraction the lower 22 fraction bits.
\* ------------------------------------------------------------------------

DoubleSign(d) == d[8] \div 128

DoubleExponent(d) == (d[8] % 128) * 16 + d[7] \div 16

Top31(d) ==
  1073741824 + (d[7] % 16) * 67108864 + d[6] * 262144 + d[5] * 1024
    + d[4] * 4 + d[3] \div 64

LowFraction(d) == (d[3] % 64) * 65536 + d[2] * 256 + d[1]

RECURSIVE Pow2(_)
Pow2(n) == IF n = 0 THEN 1 ELSE 2 * Pow2(n - 1)

DoubleIsZero(d) == DoubleExponent(d) = 0 /\ Top31(d) = 1073741824 /\ LowFraction(d) = 0

\* value >= numeric_limits<int32_t>::min() && value <= numeric_limits<int32_t>::max()
DoubleInInt32Range(d) ==
  LET e == DoubleExponent(d) - 1023
  IN  \/ e < 31
      \/ e = 31 /\ DoubleSign(d) = 1 /\ Top31(d) = 1073741824 /\ LowFraction(d) = 0

\* static_cast<int32_t>(value), for a value within the range of int32_t:
\* the value without its fractional part.
DoubleToInt32(d) ==
  LET e == DoubleExponent(d) - 1023
      magnitude == IF e < 0 THEN 0 ELSE Top31(d) \div Pow2(30 - e)
  IN  IF e = 31 THEN Int32Min
      ELSE IF DoubleSign(d) = 1 THEN -magnitude ELSE magnitude

\* static_cast<int32_t>(value) == value, for a value within the range.
DoubleEqualsItsInt32(d) ==
  LET e == DoubleExponent(d) - 1023
  IN  \/ DoubleIsZero(d)
      \/ e = 31
      \/ /\ e >= 0 /\ e <= 30
         /\ LowFraction(d) = 0
         /\ Top31(d) % Pow2(30 - e) = 0

\* Mutant: an Int whenever the value is within the range.
NumberEventInRange(value) ==
  IF DoubleInInt32Range(value) THEN IntEvent(DoubleToInt32(value))
  ELSE DoubleEvent(value)

\* The event for a number token that converts to value.
NumberEvent(value) ==
  IF DoubleInInt32Range(value) /\ DoubleEqualsItsInt32(value)
    THEN IntEvent(DoubleToInt32(value))
  ELSE DoubleEvent(value)

\* ------------------------------------------------------------------------
\* Sampled inputs of the codec.
\* ------------------------------------------------------------------------

NonZeroDigits == {1, 23, 24, 127, 128, 255}

\* The 64 bit values with at most MaxNonZeroDigits non-zero digits drawn from
\* NonZeroDigits, and 2^32 - 1 and 2^64 - 1.
U64Samples ==
  UNION {{[i \in 1..8 |-> IF i \in P THEN f[i] ELSE 0] : f \in [P -> NonZeroDigits]} :
         P \in {Q \in SUBSET (1..8) : Cardinality(Q) <= MaxNonZeroDigits}}
    \cup {U32Max, AllOnes64}

\* int32_t values: the sampled 32 bit patterns, their complements, and the
\* extremes.
Int32Samples ==
  LET low == {ToInt32(u) : u \in {v \in U64Samples : \A i \in 5..8 : v[i] = 0}}
  IN  low \cup {-(n + 1) : n \in low} \cup {Int32Max, Int32Min}

\* Well-formed items: an initial byte of any major type and additional
\* information 0..27, followed by the payload the additional information
\* announces.
ItemBytes(type, info, payload) ==
  LET size == IF info < 24 THEN 0
              ELSE IF info = kAdditionalInformation1Byte THEN 1
              ELSE IF info = kAdditionalInformation2Bytes THEN 2
              ELSE IF info = kAdditionalInformation4Bytes THEN 4
              ELSE 8
  IN  <<type * 32 + info>> \o [k \in 1..size |-> payload[size - k + 1]]

\* Sampled doubles: what a caller encodes, and what an implementation of
\* StrToD may produce for a token the model does not convert itself.
DoubleSamples ==
  {DoubleZero, DoubleHalf, DoubleOne, DoublePi, DoubleInt32Max, DoubleTwoTo31,
   DoubleInt32Min, DoubleNaN}

\* A sampled string has at most this many code units, two longer ones apart.
MaxStringLen == 2

\* Code units: NUL, '"', 'a', the ends of the one byte range, an unpaired
\* high surrogate and the largest one.
CodeUnits == {0, 34, 97, 255, 256, 55296, 65535}

\* Strings of 16 bit code units: the short ones, and one of 12 and one of 128
\* code units, whose byte lengths take a one byte and a two byte item start.
UTF16Samples ==
  UNION {[1..n -> CodeUnits] : n \in 0..MaxStringLen}
    \cup {[k \in 1..12 |-> 97 + k], [k \in 1..128 |-> 256 * k + (255 - k)]}

\* Byte sequences that are no complete item of the kind a decoder accepts:
\* no byte at all, additional information 28..31, a payload cut short, a
\* byte string of odd length or longer than what is left, a double cut short
\* or with another initial byte.
MalformedItems ==
  {<<>>}
    \cup {<<type * 32 + info>> \o rest :
            type \in {MT_UNSIGNED, MT_NEGATIVE, MT_BYTE_STRING, MT_SIMPLE_VALUE},
            info \in 28..31, rest \in {<<>>, <<1, 2>>}}
    \cup {<<type * 32 + info>> \o rest :
            type \in {MT_UNSIGNED, MT_NEGATIVE, MT_BYTE_STRING},
            info \in {kAdditionalInformation2Bytes, kAdditionalInformation8Bytes},
            rest \in {<<>>, <<1>>}}
    \cup {<<type * 32 + kAdditionalInformation1Byte>> :
            type \in {MT_UNSIGNED, MT_NEGATIVE, MT_BYTE_STRING}}
    \cup {<<64 + 1, 97>>, <<64 + 3, 97, 0, 98>>, <<64 + 4, 97, 0>>,
          <<64 + kAdditionalInformation1Byte, 25, 97, 0>>}
    \cup {<<kInitialByteForDouble, 1, 2, 3, 4, 5, 6, 7>>,
          <<kInitialByteForDouble - 1, 1, 2, 3, 4, 5, 6, 7, 8>>,
          <<kInitialByteForDouble>>}

\* The payload an item of ItemBytes carries.
ItemValue(info, payload) ==
  IF info < 24 THEN U64FromInt(info)
  ELSE LET size == IF info = kAdditionalInformation1Byte THEN 1
                   ELSE IF info = kAdditionalInformation2Bytes THEN 2
                   ELSE IF info = kAdditionalInformation4Bytes THEN 4
                   ELSE 8
       IN  [i \in 1..8 |-> IF i <= size THEN payload[i] ELSE 0]


\* ------------------------------------------------------------------------
\* State.
\* ------------------------------------------------------------------------

VARIABLES
  \* A caller of the CBOR primitives (the locals of the unit tests):
  producer,       \* what filled |encoded|: "none", an Encode* call or "item"
  example,        \* the value handed to the encoder, [u64, i32, str, dbl]
  item,           \* the item written by hand, [type, info, value]
  encoded,        \* std::vector<uint8_t> encoded
  decoder,        \* the Decode* call made on |encoded|, or "none"
  encoded_bytes,  \* span<uint8_t> encoded_bytes, after the call
  decode_ok,      \* what the call returned
  decoded,        \* the caller's values after the call, [u64, i32, str, dbl]
  \* JsonParser<Char>::Parse(start, length) and its handlers:
  json,           \* the input, start[0 .. length)
  json_pc,        \* where the parse is: "idle", "Parse", "loop", "value", "next", "done"
  json_stack,     \* the ParseValue calls inside a container, innermost last
  start,          \* the local |start| of the innermost ParseValue call
  error_,         \* JsonParser::error_
  log,            \* the events the parser has delivered, in order
  encoder,        \* the JsonToBinaryEncoder the parser drives
  \* ParseBinary(bytes, json_out) and its handlers:
  cbor,           \* the input |bytes| of ParseBinary
  cbor_pc,        \* "idle", "ParseBinary", "ParseMap", "ParseArray", "ParseValue", "done"
  cbor_stack,     \* the ParseMap / ParseArray calls, innermost last
  internal_bytes, \* span<uint8_t> internal_bytes of ParseBinary
  json_out,       \* the events ParseBinary (or a test) has delivered, in order
  writer          \* the JSON Writer that receives them

codecVars ==
  <<producer, example, item, encoded, decoder, encoded_bytes, decode_ok, decoded>>

jsonVars == <<json, json_pc, json_stack, start, error_, log, encoder>>

cborVars == <<cbor, cbor_pc, cbor_stack, internal_bytes, json_out, writer>>

vars == <<codecVars, jsonVars, cborVars>>

\* The caller's value before a decode call: "unlikely to be written by accident"
\* (0xdeadbeef in the tests).
\* The string is empty before the call; the double is 0xdeadbeef too.
Untouched ==
  [u64 |-> <<239, 190, 173, 222, 0, 0, 0, 0>>, i32 |-> -559038737,
   str |-> <<>>, dbl |-> <<239, 190, 173, 222, 0, 0, 0, 0>>]

NoExample == [u64 |-> Zero64, i32 |-> 0, str |-> <<>>, dbl |-> Zero64]

NoItem == [type |-> 0, info |-> 0, value |-> Zero64]

\* No caller of the primitives.
CodecIdle ==
  /\ producer = "none"
  /\ example = NoExample
  /\ item = NoItem
  /\ encoded = <<>>
  /\ decoder = "none"
  /\ encoded_bytes = MakeSpan(<<>>)
  /\ decode_ok = FALSE
  /\ decoded = Untouched

\* No parse of JSON text: a fresh parser and a fresh encoder.
JsonIdle ==
  /\ json = <<>>
  /\ json_pc = "idle"
  /\ json_stack = <<>>
  /\ start = 0
  /\ error_ = FALSE
  /\ log = <<>>
  /\ encoder = NewJsonToBinaryEncoder(<<>>)

\* No parse of CBOR bytes: a fresh writer.
CborIdle ==
  /\ cbor = <<>>
  /\ cbor_pc = "idle"
  /\ cbor_stack = <<>>
  /\ internal_bytes = MakeSpan(<<>>)
  /\ json_out = <<>>
  /\ writer = NewJsonWriter(<<>>)

CodecInit == CodecIdle /\ JsonIdle /\ CborIdle

\* A fresh vector is filled by one encoder call; no decoder has run on it yet.
Produce(who, ex, it, bytes) ==
  /\ producer' = who
  /\ example' = ex
  /\ item' = it
  /\ encoded' = bytes
  /\ decoder' = "none"
  /\ encoded_bytes' = MakeSpan(bytes)
  /\ decode_ok' = FALSE
  /\ decoded' = Untouched
  /\ UNCHANGED <<jsonVars, cborVars>>

CallEncodeUnsigned ==
  /\ producer = "none"
  /\ \E n \in U64Samples :
      Produce("EncodeUnsigned", [NoExample EXCEPT !.u64 = n], NoItem,
              EncodeUnsigned(n, <<>>))

CallEncodeSigned ==
  /\ producer = "none"
  /\ \E n \in Int32Samples :
      Produce("EncodeSigned", [NoExample EXCEPT !.i32 = n], NoItem,
              EncodeSigned(n, <<>>))

CallEncodeUTF16String ==
  /\ producer = "none"
  /\ \E in \in UTF16Samples :
      Produce("EncodeUTF16String", [NoExample EXCEPT !.str = in], NoItem,
              EncodeUTF16String(in, <<>>))

CallEncodeDouble ==
  /\ producer = "none"
  /\ \E value \in DoubleSamples :
      Produce("EncodeDouble", [NoExample EXCEPT !.dbl = value], NoItem,
              EncodeDouble(value, <<>>))

\* Bytes that are no complete item, put into the vector byte by byte.
WriteMalformed ==
  /\ producer = "none"
  /\ \E data \in MalformedItems : Produce("bytes", NoExample, NoItem, data)

\* A well-formed item put into the vector byte by byte.
WriteItem ==
  /\ producer = "none"
  /\ \E type \in 0..7, info \in {0, 23, 24, 25, 26, 27}, payload \in U64Samples :
      Produce("item", NoExample,
              [type |-> type, info |-> info, value |-> ItemValue(info, payload)],
              ItemBytes(type, info, payload))

CallDecodeUnsigned ==
  /\ producer # "none"
  /\ decoder = "none"
  /\ LET r == DecodeUnsigned(MakeSpan(encoded), Untouched.u64)
     IN  /\ decoder' = "DecodeUnsigned"
         /\ encoded_bytes' = r.bytes
         /\ decode_ok' = r.ok
         /\ decoded' = [decoded EXCEPT !.u64 = r.value]
  /\ UNCHANGED <<producer, example, item, encoded, jsonVars, cborVars>>

CallDecodeSigned ==
  /\ producer # "none"
  /\ decoder = "none"
  /\ \E r \in DecodeSigned(MakeSpan(encoded), Untouched.i32) :
         /\ decoder' = "DecodeSigned"
         /\ encoded_bytes' = r.bytes
         /\ decode_ok' = r.ok
         /\ decoded' = [decoded EXCEPT !.i32 = r.value]
  /\ UNCHANGED <<producer, example, item, encoded, jsonVars, cborVars>>

CallDecodeUTF16String ==
  /\ producer # "none"
  /\ decoder = "none"
  /\ LET r == DecodeUTF16String(MakeSpan(encoded))
     IN  /\ decoder' = "DecodeUTF16String"
         /\ encoded_bytes' = r.bytes
         /\ decode_ok' = r.ok
         /\ decoded' = [decoded EXCEPT !.str = r.value]
  /\ UNCHANGED <<producer, example, item, encoded, jsonVars, cborVars>>

CallDecodeDouble ==
  /\ producer # "none"
  /\ decoder = "none"
  /\ LET r == DecodeDouble(MakeSpan(encoded), Untouched.dbl)
     IN  /\ decoder' = "DecodeDouble"
         /\ encoded_bytes' = r.bytes
         /\ decode_ok' = r.ok
         /\ decoded' = [decoded EXCEPT !.dbl = r.value]
  /\ UNCHANGED <<producer, example, item, encoded, jsonVars, cborVars>>

CodecNext ==
  \/ CallEncodeUnsigned
  \/ CallEncodeSigned
  \/ CallEncodeUTF16String
  \/ CallEncodeDouble
  \/ WriteItem
  \/ WriteMalformed
  \/ CallDecodeUnsigned
  \/ CallDecodeSigned
  \/ CallDecodeUTF16String
  \/ CallDecodeDouble

SpecCodec == CodecInit /\ [][CodecNext]_vars


\* ------------------------------------------------------------------------
\* Claims about the integer codecs (SpecCodec).
\* ------------------------------------------------------------------------

\* The major type and the value of the single item |bytes| consists of, read
\* off the bytes: the additional information if below 24, else the payload
\* bytes, most significant first.
WrittenItem(bytes) ==
  LET n == Len(bytes) - 1
  IN  [type |-> bytes[1] \div 32,
       value |-> IF n = 0 THEN U64FromInt(bytes[1] % 32)
                 ELSE [i \in 1..8 |-> IF i <= n THEN bytes[Len(bytes) - i + 1] ELSE 0]]

\* C5 (as claimed): on a well-formed item DecodeSigned returns true exactly
\* for major type 0 with a value in [0, 2^31-1] and for major type 1 with a
\* payload in [0, 2^31-1] (the value -(payload)-1 in [-2^31, -1]), and then
\* yields that value.  Inputs on which the code's behaviour is undefined
\* (payload 2^63 of major type 1) are left out.
C5_DecodeSignedInRangeOnly ==
  (producer = "item" /\ decoder = "DecodeSigned"
     /\ ~(item.type = MT_NEGATIVE /\ NegationOverflows(item.value))) =>
    LET inRange == /\ item.type \in {MT_UNSIGNED, MT_NEGATIVE}
                   /\ U64LessEq(item.value, Int32Max64)
        expected == IF item.type = MT_UNSIGNED THEN ToInt32(item.value)
                    ELSE -(ToInt32(item.value) + 1)
    IN  /\ decode_ok <=> inRange
        /\ decode_ok => decoded.i32 = expected

\* C9: DecodeUnsigned on the bytes EncodeUnsigned(n) appended to an empty
\* vector returns true, yields n and leaves the span empty.
C9_UnsignedRoundTrip ==
  (producer = "EncodeUnsigned" /\ decoder = "DecodeUnsigned") =>
    /\ decode_ok
    /\ decoded.u64 = example.u64
    /\ SpanEmpty(encoded_bytes)

\* A value of the widest class has been encoded and decoded again.
C9_Witness ==
  /\ producer = "EncodeUnsigned"
  /\ decoder = "DecodeUnsigned"
  /\ example.u64 = AllOnes64
  /\ Len(encoded) = 9

\* C10: EncodeSigned(n) writes one item, of major type 0 with value n when
\* n >= 0 and of major type 1 with payload -(n+1) when n < 0, and
\* DecodeSigned on it returns true, yields n and leaves the span empty.
C10_SignedRoundTrip ==
  (producer = "EncodeSigned") =>
    /\ WrittenItem(encoded) =
         IF example.i32 >= 0
           THEN [type |-> MT_UNSIGNED, value |-> U64FromInt(example.i32)]
           ELSE [type |-> MT_NEGATIVE, value |-> U64FromInt(-(example.i32 + 1))]
    /\ Len(encoded) \in {1, 2, 3, 5}
    /\ (decoder = "DecodeSigned") =>
         /\ decode_ok
         /\ decoded.i32 = example.i32
         /\ SpanEmpty(encoded_bytes)

\* The most negative int32_t has been encoded and decoded again.
C10_Witness ==
  /\ producer = "EncodeSigned"
  /\ decoder = "DecodeSigned"
  /\ example.i32 = Int32Min
  /\ decode_ok

\* The index of the most significant non-zero digit of n, 0 for n = 0.
TopDigit(n) ==
  IF n = Zero64 THEN 0
  ELSE CHOOSE i \in 1..8 : n[i] # 0 /\ \A j \in (i + 1)..8 : n[j] = 0

\* The item of major type 0 in the smallest width class that holds n, the
\* payload most significant byte first.
SmallestUnsignedItem(n) ==
  LET width == IF TopDigit(n) <= 1 THEN 1
               ELSE IF TopDigit(n) = 2 THEN 2
               ELSE IF TopDigit(n) <= 4 THEN 4
               ELSE 8
  IN  IF TopDigit(n) <= 1 /\ n[1] < 24 THEN <<n[1]>>
      ELSE <<(IF width = 1 THEN 24 ELSE IF width = 2 THEN 25
              ELSE IF width = 4 THEN 26 ELSE 27)>>
             \o [k \in 1..width |-> n[width - k + 1]]

\* C11: EncodeUnsigned(n) appends to an empty vector exactly the item of the
\* smallest width class that holds n: one byte n below 24, else 0x18, 0x19,
\* 0x1a or 0x1b and 1, 2, 4 or 8 payload bytes, most significant first.
C11_SmallestWidthClass ==
  (producer = "EncodeUnsigned") => encoded = SmallestUnsignedItem(example.u64)

\* 2^32 - 1, the largest value of the four byte class, has been encoded.
C11_Witness ==
  /\ producer = "EncodeUnsigned"
  /\ example.u64 = U32Max
  /\ encoded = <<26, 255, 255, 255, 255>>

\* The length of the item start that carries the value n < 65536.
ItemStartLen(n) == IF n < 24 THEN 1 ELSE IF n < 256 THEN 2 ELSE 3

C13_DoubleRoundTrip ==
  /\ (producer = "EncodeDouble") =>
       /\ encoded = <<251>> \o [k \in 1..8 |-> example.dbl[9 - k]]
       /\ (decoder = "DecodeDouble") =>
            /\ decode_ok
            /\ decoded.dbl = example.dbl
            /\ encoded_bytes = Subspan(MakeSpan(encoded), 9)
  /\ (decoder = "DecodeDouble" /\ (Len(encoded) < 9 \/ encoded[1] # 251)) =>
       ~decode_ok

\* 3.1415 has been encoded and decoded again.
C13_Witness ==
  /\ producer = "EncodeDouble"
  /\ decoder = "DecodeDouble"
  /\ example.dbl = DoublePi
  /\ decode_ok

\* C14: a decoder that returns false leaves the caller's span where it was
\* and writes none of the caller's values; the string stays empty.
C14_FailureLeavesCallerUntouched ==
  (decoder # "none" /\ ~decode_ok) =>
    /\ encoded_bytes = MakeSpan(encoded)
    /\ decoded = Untouched

\* DecodeUTF16String has refused a byte string of odd length.
C14_Witness ==
  /\ producer = "bytes"
  /\ encoded = <<67, 97, 0, 98>>
  /\ decoder = "DecodeUTF16String"
  /\ ~decode_ok


\* ------------------------------------------------------------------------
\* ParseBinary: the CBOR reader.  One step runs the code up to the next
\* point where a ParseMap or ParseArray call is at the head of its loop;
\* cbor_stack holds these calls, so a nested call is a push and a return a
\* pop, and the stack_depth of a call is its place in cbor_stack.
\* ------------------------------------------------------------------------

\* Maximum nesting of the CBOR reader (binary_encoding.cc).
kStackLimit == 1000

\* The longest byte string, after the initial 0xbf, among the short inputs.
MaxCborLen == 4

\* The bytes the short inputs are made of: map and array start, stop, the
\* empty and a two byte string, 1, a negative with one payload byte, true,
\* null and a UTF-8 string start.
CborAlphabet == {191, 159, 255, 64, 66, 1, 56, 245, 246, 97}

\* bf 40, k times 9f, tail: a key and k nested arrays in the top-level map.
DeepCbor(k, tail) == <<191, 64>> \o [i \in 1..k |-> 159] \o tail

\* Longer inputs: nesting around the limit, a double, a double cut short, a
\* negative whose payload needs eight bytes, and a byte string under tag 22.
CborDocuments ==
  { DeepCbor(kStackLimit - 1, <<1, 255>>),
    DeepCbor(kStackLimit, <<>>),
    DeepCbor(kStackLimit, <<255>>),
    DeepCbor(kStackLimit, <<1>>),
    DeepCbor(kStackLimit + 1, <<>>),
    <<191, 64, 251, 64, 9, 33, 202, 192, 131, 18, 111, 255>>,
    <<191, 64, 251, 64, 9, 33>>,
    <<191, 64, 59, 255, 0, 0, 0, 0, 0, 0, 0, 255>>,
    <<191, 64, 214, 66, 1, 2, 255>>,
    <<191, 66, 97, 0, 159, 255, 66, 98, 0, 1, 255>> }

CborInputs ==
  {<<>>, <<1>>}
    \cup UNION {{<<191>> \o w : w \in [1..n -> CborAlphabet]} : n \in 0..MaxCborLen}
    \cup CborDocuments

RECURSIVE WriterHandleAll(_, _, _)
WriterHandleAll(w, events, k) ==
  IF k > Len(events) THEN w
  ELSE WriterHandleAll(WriterHandle(w, events[k]), events, k + 1)

\* json_out->Handle...: the events reach the log and the writer.
CborDeliver(events) ==
  /\ json_out' = json_out \o events
  /\ writer' = WriterHandleAll(writer, events, 1)

\* Mutant: the error is reported by the failing call and again by ParseBinary.
CborFailReportedTwice(error, span, events) ==
  /\ CborDeliver(events \o
       <<ErrorEvent([error |-> error, pos |-> Len(cbor) - SpanSize(span)]),
         ErrorEvent([error |-> error, pos |-> Len(cbor) - SpanSize(span)])>>)
  /\ internal_bytes' = span
  /\ cbor_stack' = <<>>
  /\ cbor_pc' = "done"

\* Mutant: the error is reported with the number of bytes left.
CborFailBytesLeft(error, span, events) ==
  /\ CborDeliver(Append(events, ErrorEvent([error |-> error, pos |-> SpanSize(span)])))
  /\ internal_bytes' = span
  /\ cbor_stack' = <<>>
  /\ cbor_pc' = "done"

\* A non-OK Error comes back to ParseBinary, which reports it with the
\* number of bytes consumed: bytes.size() - internal_bytes.size().
CborFail(error, span, events) ==
  /\ CborDeliver(Append(events,
       ErrorEvent([error |-> error, pos |-> Len(cbor) - SpanSize(span)])))
  /\ internal_bytes' = span
  /\ cbor_stack' = <<>>
  /\ cbor_pc' = "done"

\* The start of ParseMap / ParseArray: the initial byte is consumed and the
\* begin event is delivered; the call is then at the head of its loop.
\* stack_depth is Len(cbor_stack) + 1 at every call.
CborEnter(fn, stack_depth, span, events) ==
  /\ CborDeliver(Append(events, IF fn = "ParseMap" THEN ObjectBeginEvent
                                ELSE ArrayBeginEvent))
  /\ internal_bytes' = Subspan(span, 1)
  /\ cbor_stack' = Append(cbor_stack, fn)
  /\ cbor_pc' = fn

\* ParseValue returned Error::OK to the loop that called it.
CborValueDone(span, events) ==
  /\ CborDeliver(events)
  /\ internal_bytes' = span
  /\ UNCHANGED <<cbor_stack, cbor_pc>>

\* ParseValue(stack_depth, bytes, out); |events| are those the caller has
\* delivered in the same step.
ParseValue(stack_depth, span, events) ==
  IF stack_depth > kStackLimit
    THEN CborFail(BINARY_ENCODING_STACK_LIMIT_EXCEEDED, span, events)
  ELSE IF SpanEmpty(span)
    THEN CborFail(BINARY_ENCODING_UNEXPECTED_EOF_EXPECTED_VALUE, span, events)
  ELSE LET initial == SpanAt(span, 0)
           major == initial \div Pow2(kMajorTypeBitShift)
       IN  CASE initial = kEncodedTrue ->
                  CborValueDone(Subspan(span, 1), Append(events, BoolEvent(TRUE)))
             [] initial = kEncodedFalse ->
                  CborValueDone(Subspan(span, 1), Append(events, BoolEvent(FALSE)))
             [] initial = kEncodedNull ->
                  CborValueDone(Subspan(span, 1), Append(events, NullEvent))
             [] initial = kInitialByteForDouble ->
                  LET r == DecodeDouble(span, Zero64)
                  IN  IF ~r.ok
                        THEN CborFail(BINARY_ENCODING_INVALID_DOUBLE, span, events)
                      ELSE CborValueDone(r.bytes, Append(events, DoubleEvent(r.value)))
             [] initial = kInitialByteIndefiniteLengthArray ->
                  CborEnter("ParseArray", stack_depth + 1, span, events)
             [] initial = kInitialByteIndefiniteLengthMap ->
                  CborEnter("ParseMap", stack_depth + 1, span, events)
             [] OTHER ->
                  IF major \in {MT_UNSIGNED, MT_NEGATIVE}
                    THEN \E r \in DecodeSigned(span, 0) :
                           IF ~r.ok
                             THEN CborFail(BINARY_ENCODING_INVALID_SIGNED, span, events)
                           ELSE CborValueDone(r.bytes, Append(events, IntEvent(r.value)))
                  ELSE IF major = MT_BYTE_STRING
                    THEN LET r == DecodeUTF16String(span)
                         IN  IF ~r.ok
                               THEN CborFail(BINARY_ENCODING_INVALID_STRING16, span, events)
                             ELSE CborValueDone(r.bytes,
                                                Append(events, StringEvent(r.value)))
                  ELSE CborFail(BINARY_ENCODING_UNSUPPORTED_VALUE, span, events)

\* The stop byte at the head of a loop: the end event is delivered and the
\* call returns Error::OK, to the loop of the enclosing call or, from the
\* outermost ParseMap, to ParseBinary.  The stop byte stays in the span.
CborReturnOK(event) ==
  /\ CborDeliver(<<event>>)
  /\ cbor_stack' = SubSeq(cbor_stack, 1, Len(cbor_stack) - 1)
  /\ cbor_pc' = IF Len(cbor_stack) = 1 THEN "done"
                ELSE cbor_stack[Len(cbor_stack) - 1]
  /\ UNCHANGED internal_bytes

\* Mutant: the initial byte of the input is not looked at.
ParseBinaryAnyStartByte ==
  /\ cbor_pc = "ParseBinary"
  /\ IF cbor = <<>>
       THEN /\ CborDeliver(<<ErrorEvent([error |-> BINARY_ENCODING_NO_INPUT, pos |-> 0])>>)
            /\ cbor_pc' = "done"
            /\ UNCHANGED <<cbor_stack, internal_bytes>>
     ELSE CborEnter("ParseMap", 1, MakeSpan(cbor), <<>>)
  /\ UNCHANGED <<cbor, codecVars, jsonVars>>

\* ParseBinary(bytes, json_out) up to the loop of ParseMap(1, ...).
ParseBinary ==
  /\ cbor_pc = "ParseBinary"
  /\ IF cbor = <<>>
       THEN /\ CborDeliver(<<ErrorEvent([error |-> BINARY_ENCODING_NO_INPUT, pos |-> 0])>>)
            /\ cbor_pc' = "done"
            /\ UNCHANGED <<cbor_stack, internal_bytes>>
     ELSE IF cbor[1] # kInitialByteIndefiniteLengthMap
       THEN /\ CborDeliver(<<ErrorEvent([error |-> BINARY_ENCODING_INVALID_START_BYTE,
                                         pos |-> 0])>>)
            /\ cbor_pc' = "done"
            /\ UNCHANGED <<cbor_stack, internal_bytes>>
     ELSE CborEnter("ParseMap", 1, MakeSpan(cbor), <<>>)
  /\ UNCHANGED <<cbor, codecVars, jsonVars>>

\* One turn of the loop of ParseArray.
ParseArray ==
  /\ cbor_pc = "ParseArray"
  /\ LET stack_depth == Len(cbor_stack)
     IN  IF SpanEmpty(internal_bytes)
           THEN CborFail(BINARY_ENCODING_UNEXPECTED_EOF_IN_ARRAY, internal_bytes, <<>>)
         ELSE IF SpanAt(internal_bytes, 0) = kStopByte
           THEN CborReturnOK(ArrayEndEvent)
         ELSE ParseValue(stack_depth, internal_bytes, <<>>)
  /\ UNCHANGED <<cbor, codecVars, jsonVars>>

\* One turn of the loop of ParseMap.
ParseMap ==
  /\ cbor_pc = "ParseMap"
  /\ LET stack_depth == Len(cbor_stack)
         key == DecodeUTF16String(internal_bytes)
     IN  IF SpanEmpty(internal_bytes)
           THEN CborFail(BINARY_ENCODING_UNEXPECTED_EOF_IN_MAP, internal_bytes, <<>>)
         ELSE IF SpanAt(internal_bytes, 0) = kStopByte
           THEN CborReturnOK(ObjectEndEvent)
         ELSE IF ~key.ok
           THEN CborFail(BINARY_ENCODING_INVALID_MAP_KEY, internal_bytes, <<>>)
         ELSE ParseValue(stack_depth, key.bytes, <<StringEvent(key.value)>>)
  /\ UNCHANGED <<cbor, codecVars, jsonVars>>

CborNext ==
  \/ ParseBinary
  \/ ParseArray
  \/ ParseMap

CborInit ==
  /\ CodecIdle
  /\ JsonIdle
  /\ cbor \in CborInputs
  /\ cbor_pc = "ParseBinary"
  /\ cbor_stack = <<>>
  /\ internal_bytes = MakeSpan(<<>>)
  /\ json_out = <<>>
  /\ writer = NewJsonWriter(<<>>)

SpecCbor == CborInit /\ [][CborNext]_vars


\* ------------------------------------------------------------------------
\* SystemDeps::StrToD, the injected conversion of a number token.
\* ------------------------------------------------------------------------

\* The value of a string of decimal digits.
RECURSIVE DecimalValue(_, _)
DecimalValue(str, k) ==
  IF k = 0 THEN 0 ELSE DecimalValue(str, k - 1) * 10 + (str[k] - 48)

\* The position of the leading one bit of n > 0.
RECURSIVE Log2(_)
Log2(n) == IF n < 2 THEN 0 ELSE 1 + Log2(n \div 2)

\* The double that equals the integer n, 0 <= n < 2^31, with the given sign.
IntegerToDouble(sign, n) ==
  IF n = 0 THEN <<0, 0, 0, 0, 0, 0, 0, sign * 128>>
  ELSE LET e == Log2(n)
           top == n * Pow2(30 - e)
           exponent == 1023 + e
       IN  <<0, 0, (top % 4) * 64, (top \div 4) % 256, (top \div 1024) % 256,
             (top \div 262144) % 256,
             (exponent % 16) * 16 + ((top \div 67108864) % 16),
             sign * 128 + (exponent \div 16)>>

\* 100, -1.5, 2147483647.5 and -2147483649 as doubles.
DoubleHundred == <<0, 0, 0, 0, 0, 0, 89, 64>>

DoubleMinusOneAndHalf == <<0, 0, 0, 0, 0, 0, 248, 191>>

DoubleInt32MaxAndHalf == <<0, 0, 224, 255, 255, 255, 223, 65>>

DoubleBelowInt32Min == <<0, 0, 32, 0, 0, 0, 224, 193>>

\* Number tokens with the double strtod yields for each: 3.1415 31415e-4
\* 1.0 1e2 0.5 -1.5 2147483647 2147483648 -2147483648 -2147483649
\* 2147483647.5
NumberTexts ==
  { [text |-> <<51, 46, 49, 52, 49, 53>>, value |-> DoublePi],
    [text |-> <<51, 49, 52, 49, 53, 101, 45, 52>>, value |-> DoublePi],
    [text |-> <<49, 46, 48>>, value |-> DoubleOne],
    [text |-> <<49, 101, 50>>, value |-> DoubleHundred],
    [text |-> <<48, 46, 53>>, value |-> DoubleHalf],
    [text |-> <<45, 49, 46, 53>>, value |-> DoubleMinusOneAndHalf],
    [text |-> <<50, 49, 52, 55, 52, 56, 51, 54, 52, 55>>, value |-> DoubleInt32Max],
    [text |-> <<50, 49, 52, 55, 52, 56, 51, 54, 52, 56>>, value |-> DoubleTwoTo31],
    [text |-> <<45, 50, 49, 52, 55, 52, 56, 51, 54, 52, 56>>, value |-> DoubleInt32Min],
    [text |-> <<45, 50, 49, 52, 55, 52, 56, 51, 54, 52, 57>>,
     value |-> DoubleBelowInt32Min],
    [text |-> <<50, 49, 52, 55, 52, 56, 51, 54, 52, 55, 46, 53>>,
     value |-> DoubleInt32MaxAndHalf] }

\* What strtod yields for the text of a number token: the value of a text
\* above, the integer for up to nine digits with an optional minus.
StrToDValues(str) ==
  LET sign == IF str[1] = 45 THEN 1 ELSE 0
      digits == SubSeq(str, sign + 1, Len(str))
  IN  IF \E n \in NumberTexts : n.text = str
        THEN {n.value : n \in {m \in NumberTexts : m.text = str}}
      ELSE IF (\A k \in 1..Len(digits) : IsDigit(digits[k])) /\ Len(digits) <= 9
        THEN {IntegerToDouble(sign, DecimalValue(digits, Len(digits)))}
      ELSE DoubleSamples

\* StrToD(str, &result): [ok, result].  It is the client's; the one of
\* LinuxDeps also fails on a token it can convert, whenever errno holds
\* ERANGE from an earlier call.
StrToD(str) ==
  {[ok |-> FALSE, result |-> DoubleZero]}
    \cup {[ok |-> TRUE, result |-> v] : v \in StrToDValues(str)}

\* ------------------------------------------------------------------------
\* JsonParser<Char>::Parse.  One step runs the code up to the next point
\* where a ParseValue call is inside a container: at the head of its loop
\* ("loop"), before the value of a key ("value") or after a value
\* ("next").  json_stack holds these calls, each as the token that began
\* its container; the depth of a call is its place in json_stack less one.
\* ------------------------------------------------------------------------

\* Maximum nesting of the JSON parser (json_parser.cc).
kStackLimitJson == 1000

\* The longest of the short inputs.
MaxJsonLen == 4

\* The characters the short inputs are made of: { } [ ] , : " 1
JsonAlphabet == {123, 125, 91, 93, 44, 58, 34, 49}

\* k times '[' and then k times ']'.
DeepJson(k) == [i \in 1..k |-> 91] \o [i \in 1..k |-> 93]

\* {"": then k times '[', k times ']' and }.
DeepJsonObject(k) == <<123, 34, 34, 58>> \o DeepJson(k) \o <<125>>

\* {"":[],"":1}
DocArrayThenPair == <<123, 34, 34, 58, 91, 93, 44, 34, 34, 58, 49, 125>>

\* [1,2]
DocTwoNumbers == <<91, 49, 44, 50, 93>>

\* {"1":1}
DocNumberInObject == <<123, 34, 49, 34, 58, 49, 125>>

\* {"foo": 3.1415, "bar: 31415e-4}
DocUnterminatedKey ==
  <<123, 34, 102, 111, 111, 34, 58, 32, 51, 46, 49, 52, 49, 53, 44, 32, 34, 98, 97, 114, 58, 32, 51, 49, 52, 49, 53, 101, 45, 52, 125>>

\* {"foo": 3.1415: "bar": 0}
DocColonAfterPair ==
  <<123, 34, 102, 111, 111, 34, 58, 32, 51, 46, 49, 52, 49, 53, 58, 32, 34, 98, 97, 114, 34, 58, 32, 48, 125>>

\* nulx, trux, falsX, nuxl, [nulx], [fals]: constants with one character wrong
\* or missing.
MisspeltConstants ==
  { <<110, 117, 108, 120>>, <<116, 114, 117, 120>>, <<102, 97, 108, 115, 88>>,
    <<110, 117, 120, 108>>, <<91, 110, 117, 108, 120, 93>>,
    <<91, 102, 97, 108, 115, 93>> }

\* A comma before the closing bracket: [1,] {"":1,} [1, ] [[],] [1,/**/]
\* [[1,]] {"":[1,]}
TrailingCommaDocuments ==
  { <<91, 49, 44, 93>>, <<123, 34, 34, 58, 49, 44, 125>>, <<91, 49, 44, 32, 93>>,
    <<91, 91, 93, 44, 93>>, <<91, 49, 44, 47, 42, 42, 47, 93>>,
    <<91, 91, 49, 44, 93, 93>>, <<123, 34, 34, 58, 91, 49, 44, 93, 125>> }

\* The input ends inside a container: [ [1 [1, { {"" {"": {"":1 {"":1, [[]
\* [{} and "[1 " with a blank at the end.
UnterminatedDocuments ==
  { <<91>>, <<91, 49>>, <<91, 49, 44>>, <<123>>, <<123, 34, 34>>,
    <<123, 34, 34, 58>>, <<123, 34, 34, 58, 49>>, <<123, 34, 34, 58, 49, 44>>,
    <<91, 91, 93>>, <<91, 123, 125>>, <<91, 49, 32>> }

JsonDocuments ==
  { DocArrayThenPair, DocTwoNumbers, DocNumberInObject, DocUnterminatedKey,
    DocColonAfterPair,
    DeepJson(kStackLimitJson), DeepJson(kStackLimitJson + 1),
    DeepJson(kStackLimitJson + 2), DeepJsonObject(kStackLimitJson) }

\* Texts of values: 1 -1 "a" true null [] [1] {} {"":[]} [[]]
JsonValueTexts ==
  { <<49>>,
    <<45, 49>>,
    <<34, 97, 34>>,
    <<116, 114, 117, 101>>,
    <<110, 117, 108, 108>>,
    <<91, 93>>,
    <<91, 49, 93>>,
    <<123, 125>>,
    <<123, 34, 34, 58, 91, 93, 125>>,
    <<91, 91, 93, 93>> }

\* The objects {"":v} and {"":v,"b":w} for the values above.
JsonObjects ==
  {<<123, 34, 34, 58>> \o v \o <<125>> : v \in JsonValueTexts}
    \cup {<<123, 34, 34, 58>> \o v \o <<44, 34, 98, 34, 58>> \o w \o <<125>> :
            v \in JsonValueTexts, w \in JsonValueTexts}

JsonInputs ==
  UNION {[1..n -> JsonAlphabet] : n \in 0..MaxJsonLen}
    \cup JsonDocuments \cup JsonObjects \cup MisspeltConstants
    \cup TrailingCommaDocuments \cup UnterminatedDocuments
    \cup {n.text : n \in NumberTexts} \cup {<<45, 48>>, <<52, 50>>, <<49, 46, 53, 101, 49>>}

RECURSIVE EncoderHandleAll(_, _, _)
EncoderHandleAll(e, events, k) ==
  IF k > Len(events) THEN e
  ELSE EncoderHandleAll(EncoderHandle(e, events[k]), events, k + 1)

\* handler_->Handle...: the events reach the log and the encoder.
JsonDeliver(events) ==
  /\ log' = log \o events
  /\ encoder' = EncoderHandleAll(encoder, events, 1)

\* handler_->HandleError() is called without an argument: the event has
\* neither an error kind nor an offset to carry, a handler that takes a
\* Status sees Status().
JsonErrorEvent == ErrorEvent(DefaultStatus)

\* The events of JsonParser::HandleError().
HandleError(flag) == IF flag THEN <<>> ELSE <<JsonErrorEvent>>

\* HandleError() and return: error_ is set, so every enclosing ParseValue
\* returns as well, and the HandleError() of Parse does nothing.
JsonFail(events) ==
  /\ JsonDeliver(events \o HandleError(error_))
  /\ error_' = TRUE
  /\ json_stack' = <<>>
  /\ json_pc' = "done"
  /\ UNCHANGED start

\* The text of the token in [from, to).
TokenText(in, from, to) == [k \in 1..(to - from) |-> CharAt(in, from + k - 1)]

\* The answers StrToD can give when the value begins with the token t.
StrToDOf(in, t) ==
  IF t.token = "Number" THEN StrToD(TokenText(in, t.token_start, t.token_end))
  ELSE {[ok |-> FALSE, result |-> DoubleZero]}

\* The answers StrToD can give to the ParseValue call at offset |at|.
StrToDAt(in, at) == StrToDOf(in, ParseToken(in, at))

Outcome(result, events, token_end) ==
  [result |-> result, events |-> events, token_end |-> token_end]

\* A value that is one token: the event, then SkipWhitespaceAndComments.
ValueOutcome(in, t, event) ==
  Outcome("value", <<event>>, SkipWhitespaceAndComments(in, t.token_end))

\* The switch of ParseValue on the token t read at offset |at|.
ValueOfToken(in, at, t, strtod) ==
  CASE t.token = "NullToken" -> ValueOutcome(in, t, NullEvent)
    [] t.token = "BoolTrue" -> ValueOutcome(in, t, BoolEvent(TRUE))
    [] t.token = "BoolFalse" -> ValueOutcome(in, t, BoolEvent(FALSE))
    [] t.token = "Number" ->
         IF ~strtod.ok THEN Outcome("failed_number", <<JsonErrorEvent>>, at)
         ELSE ValueOutcome(in, t, NumberEvent(strtod.result))
    [] t.token = "StringLiteral" ->
         IF ~DecodeString(in, t.token_start + 1, t.token_end - 1).ok
           THEN Outcome("error", <<>>, at)
         ELSE ValueOutcome(in, t,
                StringEvent(DecodeString(in, t.token_start + 1, t.token_end - 1).output))
    [] t.token = "ArrayBegin" -> Outcome("ArrayBegin", <<ArrayBeginEvent>>, t.token_end)
    [] t.token = "ObjectBegin" ->
         Outcome("ObjectBegin", <<ObjectBeginEvent>>, t.token_end)
    [] OTHER -> Outcome("error", <<>>, at)

\* ParseValue(start, end, value_token_end, depth) up to its return or to the
\* loop of its container; strtod is the answer of StrToD should it be
\* called.  The result is "error" after HandleError(), "failed_number" after
\* the return of the number case, "value" after a value (token_end is then
\* *value_token_end), or the token that begins a container (token_end is
\* then the end of that token).
JsonParseValue(in, at, depth, strtod) ==
  IF depth > kStackLimitJson THEN Outcome("error", <<>>, at)
  ELSE ValueOfToken(in, at, ParseToken(in, at), strtod)

\* The container has begun: its ParseValue call, which has the depth
\* Len(json_stack), is at the head of its loop.
JsonEnter(o) ==
  /\ JsonDeliver(o.events)
  /\ json_stack' = Append(json_stack, o.result)
  /\ start' = o.token_end
  /\ json_pc' = "loop"
  /\ UNCHANGED error_

\* Parse() ends: if (tokenEnd != end) HandleError().
JsonReturnToParse(events, unprocessed) ==
  /\ JsonDeliver(events \o (IF unprocessed THEN HandleError(error_) ELSE <<>>))
  /\ error_' = (error_ \/ unprocessed)
  /\ json_stack' = <<>>
  /\ json_pc' = "done"
  /\ UNCHANGED start

\* Parse after ParseValue(start, end, &tokenEnd, 0) came to o.  When the
\* number case returns, tokenEnd has not been written: the comparison with
\* |end| goes either way.
JsonTopValue(o) ==
  CASE o.result = "error" -> JsonFail(o.events)
    [] o.result = "failed_number" ->
         \E unequal \in BOOLEAN : JsonReturnToParse(o.events, unequal)
    [] o.result = "value" -> JsonReturnToParse(o.events, o.token_end # Len(json))
    [] OTHER -> JsonEnter(o)

\* Parse(start, length) up to the return of the top-level ParseValue or to
\* the loop of the top-level container.
JsonParser_Parse ==
  /\ json_pc = "Parse"
  /\ \E strtod \in StrToDAt(json, 0) :
       JsonTopValue(JsonParseValue(json, 0, 0, strtod))
  /\ UNCHANGED <<json, codecVars, cborVars>>

\* A container at depth |depth| after its ParseValue(start, end, &token_end,
\* depth + 1) call came to o.  stale is what token_end holds if the call
\* returned without writing it.
JsonNestedOutcome(o, depth, stale) ==
  CASE o.result = "error" -> JsonFail(o.events)
    [] o.result \in {"failed_number", "value"} ->
         /\ JsonDeliver(o.events)
         /\ start' = IF o.result = "value" THEN o.token_end ELSE stale
         /\ json_pc' = "next"
         /\ UNCHANGED <<json_stack, error_>>
    [] OTHER -> JsonEnter(o)

JsonNestedValue(depth, stale) ==
  \E strtod \in StrToDAt(json, start) :
    JsonNestedOutcome(JsonParseValue(json, start, depth + 1, strtod), depth, stale)

\* The token that began the innermost container, and the depth of its
\* ParseValue call.
TopCall == json_stack[Len(json_stack)]

TopDepth == Len(json_stack) - 1

EndToken(call) == IF call = "ArrayBegin" THEN "ArrayEnd" ELSE "ObjectEnd"

\* Mutant: every container ends as an array.
EndEventOfArray(call) == ArrayEndEvent

\* handler_->HandleArrayEnd() or handler_->HandleObjectEnd()
EndEvent(call) == IF call = "ArrayBegin" THEN ArrayEndEvent ELSE ObjectEndEvent

\* The end event, SkipWhitespaceAndComments to value_token_end, and the
\* return to the enclosing call or to Parse.
JsonContainerReturns(value_token_end) ==
  IF Len(json_stack) = 1
    THEN JsonReturnToParse(<<EndEvent(TopCall)>>, value_token_end # Len(json))
  ELSE /\ JsonDeliver(<<EndEvent(TopCall)>>)
       /\ json_stack' = SubSeq(json_stack, 1, Len(json_stack) - 1)
       /\ start' = value_token_end
       /\ json_pc' = "next"
       /\ UNCHANGED error_

JsonContainerEndAt(t) ==
  /\ t.token = EndToken(TopCall)
  /\ JsonContainerReturns(SkipWhitespaceAndComments(json, t.token_end))

\* The loop of a container that has no element is not entered.
JsonParser_ContainerEnd ==
  /\ json_pc = "loop"
  /\ JsonContainerEndAt(ParseToken(json, start))
  /\ UNCHANGED <<json, codecVars, cborVars>>

JsonArrayElementAt(t) ==
  /\ t.token # "ArrayEnd"
  /\ JsonNestedValue(TopDepth, t.token_end)

\* One element of an array: token_end is the end of the element's first
\* token when ParseValue is called.
JsonParser_ArrayElement ==
  /\ json_pc = "loop"
  /\ TopCall = "ArrayBegin"
  /\ JsonArrayElementAt(ParseToken(json, start))
  /\ UNCHANGED <<json, codecVars, cborVars>>

\* The key token t, the decoded key and the token after it.
JsonObjectKeyAt(t, key, colon) ==
  /\ t.token # "ObjectEnd"
  /\ IF t.token # "StringLiteral" THEN JsonFail(<<>>)
     ELSE IF ~key.ok THEN JsonFail(<<>>)
     ELSE IF colon.token # "ObjectPairSeparator"
       THEN JsonFail(<<StringEvent(key.output)>>)
     ELSE /\ JsonDeliver(<<StringEvent(key.output)>>)
          /\ start' = colon.token_end
          /\ json_pc' = "value"
          /\ UNCHANGED <<json_stack, error_>>

JsonObjectKeyToken(t) ==
  JsonObjectKeyAt(t, DecodeString(json, t.token_start + 1, t.token_end - 1),
                  ParseToken(json, t.token_end))

\* The key of an object and the colon after it.
JsonParser_ObjectKey ==
  /\ json_pc = "loop"
  /\ TopCall = "ObjectBegin"
  /\ JsonObjectKeyToken(ParseToken(json, start))
  /\ UNCHANGED <<json, codecVars, cborVars>>

\* The value of a key: token_end is the end of the colon when ParseValue is
\* called.
JsonParser_ObjectValue ==
  /\ json_pc = "value"
  /\ JsonNestedValue(TopDepth, start)
  /\ UNCHANGED <<json, codecVars, cborVars>>

\* Mutant: the token after a comma is not looked at.
JsonSeparatorAtAnyNext(t, after) ==
  IF t.token = "ListSeparator"
    THEN /\ start' = t.token_end
         /\ json_pc' = "loop"
         /\ UNCHANGED <<json_stack, error_, log, encoder>>
  ELSE IF t.token # EndToken(TopCall) THEN JsonFail(<<>>)
  ELSE JsonContainerReturns(SkipWhitespaceAndComments(json, t.token_end))

\* The token t after a value and the token after t.
JsonSeparatorAt(t, after) ==
  IF t.token = "ListSeparator"
    THEN IF after.token = EndToken(TopCall) THEN JsonFail(<<>>)
         ELSE /\ start' = t.token_end
              /\ json_pc' = "loop"
              /\ UNCHANGED <<json_stack, error_, log, encoder>>
  ELSE IF t.token # EndToken(TopCall) THEN JsonFail(<<>>)
  ELSE JsonContainerReturns(SkipWhitespaceAndComments(json, t.token_end))

JsonSeparatorToken(t) == JsonSeparatorAt(t, ParseToken(json, t.token_end))

\* After a value: a comma that the end token does not follow, or the end
\* token, which ends the loop and the container.
JsonParser_Separator ==
  /\ json_pc = "next"
  /\ JsonSeparatorToken(ParseToken(json, start))
  /\ UNCHANGED <<json, codecVars, cborVars>>

NoErrorEvent(events) == {i \in 1..Len(events) : Kind(events[i]) = "Error"} = {}

\* The caller hands the bytes of an accepted document to ParseBinary.
FeedParseBinary ==
  /\ json_pc = "done"
  /\ cbor_pc = "idle"
  /\ NoErrorEvent(log)
  /\ cbor' = encoder.out_
  /\ cbor_pc' = "ParseBinary"
  /\ UNCHANGED <<cbor_stack, internal_bytes, json_out, writer, codecVars, jsonVars>>

Next ==
  \/ JsonParser_Parse
  \/ JsonParser_ContainerEnd
  \/ JsonParser_ArrayElement
  \/ JsonParser_ObjectKey
  \/ JsonParser_ObjectValue
  \/ JsonParser_Separator
  \/ FeedParseBinary
  \/ ParseBinary
  \/ ParseArray
  \/ ParseMap

Init ==
  /\ CodecIdle
  /\ CborIdle
  /\ json \in JsonInputs
  /\ json_pc = "Parse"
  /\ json_stack = <<>>
  /\ start = 0
  /\ error_ = FALSE
  /\ log = <<>>
  /\ encoder = NewJsonToBinaryEncoder(<<>>)

Spec == Init /\ [][Next]_vars


\* ------------------------------------------------------------------------
\* Claims about ParseBinary (SpecCbor).
\* ------------------------------------------------------------------------

LastEvent(events) == events[Len(events)]

\* C7 (as claimed): no map or array nested deeper than 1000 is begun, and
\* the BINARY_ENCODING_STACK_LIMIT_EXCEEDED error carries the offset of the
\* initial byte of a container, the one that goes beyond depth 1000.
C7_StackLimitAtContainer ==
  /\ Len(cbor_stack) <= kStackLimit
  /\ (/\ cbor_pc = "done"
      /\ Kind(LastEvent(json_out)) = "Error"
      /\ Arg(LastEvent(json_out))[1] = BINARY_ENCODING_STACK_LIMIT_EXCEEDED) =>
       LET pos == Arg(LastEvent(json_out))[2]
       IN  /\ pos < Len(cbor)
           /\ cbor[pos + 1] \in {kInitialByteIndefiniteLengthArray,
                                 kInitialByteIndefiniteLengthMap}


\* C19: ParseBinary delivers exactly one event on an input that is empty,
\* Error{BINARY_ENCODING_NO_INPUT, 0}, and exactly one on an input whose
\* first byte is not 0xbf, Error{BINARY_ENCODING_INVALID_START_BYTE, 0}.
C19_EntryContract ==
  /\ (cbor_pc = "done" /\ cbor = <<>>) =>
       json_out = <<ErrorEvent([error |-> BINARY_ENCODING_NO_INPUT, pos |-> 0])>>
  /\ (cbor_pc = "done" /\ cbor # <<>> /\ cbor[1] # kInitialByteIndefiniteLengthMap) =>
       json_out = <<ErrorEvent([error |-> BINARY_ENCODING_INVALID_START_BYTE,
                                pos |-> 0])>>

\* ParseBinary has refused an input that begins with an integer.
C19_Witness ==
  /\ cbor_pc = "done"
  /\ cbor = <<1>>
  /\ json_out = <<<<"Error", BINARY_ENCODING_INVALID_START_BYTE, 0>>>>

\* ParseBinary has failed on its input.
CborFailed == cbor_pc = "done" /\ json_out # <<>> /\ Kind(LastEvent(json_out)) = "Error"

\* The errors that say the input ended where an item had to follow.
EndOfInputErrors ==
  {BINARY_ENCODING_NO_INPUT, BINARY_ENCODING_UNEXPECTED_EOF_EXPECTED_VALUE,
   BINARY_ENCODING_UNEXPECTED_EOF_IN_ARRAY, BINARY_ENCODING_UNEXPECTED_EOF_IN_MAP}

\* The item of b that begins at offset pos is one that the reader, failing
\* with error, cannot decode.
CannotDecode(b, pos, error) ==
  LET rest == Subspan(MakeSpan(b), pos)
      initial == b[pos + 1]
  IN  CASE error = BINARY_ENCODING_INVALID_START_BYTE -> initial # kInitialByteIndefiniteLengthMap
        [] error = BINARY_ENCODING_INVALID_MAP_KEY -> ~DecodeUTF16String(rest).ok
        [] error = BINARY_ENCODING_INVALID_STRING16 ->
             initial \div 32 = MT_BYTE_STRING /\ ~DecodeUTF16String(rest).ok
        [] error = BINARY_ENCODING_INVALID_SIGNED ->
             /\ initial \div 32 \in {MT_UNSIGNED, MT_NEGATIVE}
             /\ \E r \in DecodeSigned(rest, 0) : ~r.ok
        [] error = BINARY_ENCODING_INVALID_DOUBLE ->
             initial = kInitialByteForDouble /\ ~DecodeDouble(rest, Zero64).ok
        [] error = BINARY_ENCODING_UNSUPPORTED_VALUE ->
             /\ initial \div 32 \in {MT_STRING, MT_ARRAY, MT_MAP, MT_TAG, MT_SIMPLE_VALUE}
             /\ initial \notin {kEncodedTrue, kEncodedFalse, kEncodedNull,
                             kInitialByteForDouble,
                             kInitialByteIndefiniteLengthArray,
                             kInitialByteIndefiniteLengthMap}
        [] error = BINARY_ENCODING_STACK_LIMIT_EXCEEDED -> TRUE
        [] OTHER -> FALSE

\* C20: when ParseBinary fails, the pos of the status is the length of the
\* input less the length of the unconsumed span, lies in 0..len(b), and is
\* the offset of the first byte of the item that could not be decoded, or
\* len(b) when the input ended.
C20_ErrorPosition ==
  CborFailed =>
    LET error == Arg(LastEvent(json_out))[1]
        pos == Arg(LastEvent(json_out))[2]
    IN  /\ pos = Len(cbor) - (IF cbor # <<>> /\ cbor[1] = kInitialByteIndefiniteLengthMap
                                THEN SpanSize(internal_bytes) ELSE Len(cbor))
        /\ 0 <= pos /\ pos <= Len(cbor)
        /\ IF error \in EndOfInputErrors THEN pos = Len(cbor)
           ELSE pos < Len(cbor) /\ CannotDecode(cbor, pos, error)

\* A map whose second value is a negative integer cut short has failed at
\* the offset of that integer.
C20_Witness ==
  /\ cbor = <<191, 64, 1, 64, 56>>
  /\ CborFailed
  /\ LastEvent(json_out) = <<"Error", BINARY_ENCODING_INVALID_SIGNED, 4>>

\* The item at the head of rest is a string of major type 3, whole, whose
\* bytes all have the high bit clear.
IsAsciiString(rest) ==
  LET r == ReadItemStart(rest)
  IN  /\ r.ok
      /\ r.type = MT_STRING
      /\ U64LessEq(r.value, U64FromInt(SpanSize(r.bytes)))
      /\ \A k \in 0..(ToInt32(r.value) - 1) : SpanAt(r.bytes, k) < 128

\* The item at the head of rest is tag 22 followed by a byte string of major
\* type 2, whole.
IsTaggedBinary(rest) ==
  /\ SpanAt(rest, 0) = EncodeInitialByte(MT_TAG, 22)
  /\ LET r == ReadItemStart(Subspan(rest, 1))
     IN  /\ r.ok
         /\ r.type = MT_BYTE_STRING
         /\ U64LessEq(r.value, U64FromInt(SpanSize(r.bytes)))

\* C21 (as claimed): a string of major type 3 with ASCII bytes and a byte
\* string under tag 22, at a value position, are decoded and the reader goes
\* on: BINARY_ENCODING_UNSUPPORTED_VALUE is never reported at such an item.
C21_Utf8AndBinaryAccepted ==
  (CborFailed /\ Arg(LastEvent(json_out))[1] = BINARY_ENCODING_UNSUPPORTED_VALUE) =>
    LET rest == Subspan(MakeSpan(cbor), Arg(LastEvent(json_out))[2])
    IN  ~IsAsciiString(rest) /\ ~IsTaggedBinary(rest)

\* The places of the Error events among events.
ErrorEvents(events) == {i \in 1..Len(events) : Kind(events[i]) = "Error"}

\* C22: ParseBinary delivers at most one Error event, nothing after it, and
\* none when it has walked the whole message: a call that is over ends with
\* the Error event or with the ObjectEnd of the top-level map.
C22_ErrorIsTerminal ==
  /\ ErrorEvents(json_out) \subseteq {Len(json_out)}
  /\ ErrorEvents(json_out) # {} => cbor_pc = "done"
  /\ (cbor_pc = "done" /\ ErrorEvents(json_out) = {}) =>
       LastEvent(json_out) = ObjectEndEvent

\* An array cut short after its first element: four events, then the Error.
C22_Witness ==
  /\ cbor_pc = "done"
  /\ cbor = <<191, 64, 159, 1>>
  /\ Len(json_out) = 5
  /\ ErrorEvents(json_out) = {5}

\* The bytes ParseBinary has consumed.
Consumed == Len(cbor) - SpanSize(internal_bytes)

\* C27 (as claimed): the stop byte at an element position is consumed when
\* the end event is delivered, and closes one container: after an end event
\* the last byte consumed is a stop byte, and there are no more end events
\* than stop bytes consumed.
C27_StopByteConsumed ==
  (json_out # <<>> /\ Kind(LastEvent(json_out)) \in {"ArrayEnd", "ObjectEnd"}) =>
    /\ cbor[Consumed] = kStopByte
    /\ Cardinality({i \in 1..Len(json_out) :
                      Kind(json_out[i]) \in {"ArrayEnd", "ObjectEnd"}})
         <= Cardinality({i \in 1..Consumed : cbor[i] = kStopByte})

\* The frame the writer holds for a call of the reader.
FrameOf(fn) == IF fn = "ParseMap" THEN "OBJECT" ELSE "ARRAY"

\* C28 (as claimed): the writer that receives the events of ParseBinary
\* never holds more than 1000 container frames above its initial frame, its
\* stack is never empty, and an end event pops a frame of its kind: while
\* no error has come, the frames are those of the containers that are open.
C28_WriterStack ==
  /\ Len(writer.state_) >= 1
  /\ Len(writer.state_) - 1 <= kStackLimit
  /\ ~writer.error_ =>
       /\ Len(writer.state_) = Len(cbor_stack) + 1
       /\ writer.state_[1].container_ = "NONE"
       /\ {i \in 1..Len(cbor_stack) :
             writer.state_[i + 1].container_ # FrameOf(cbor_stack[i])} = {}

\* C29 (as claimed): when ParseBinary is over and has delivered no Error
\* event, it has consumed every byte of its input.
C29_WholeInputConsumed ==
  (cbor_pc = "done" /\ ErrorEvents(json_out) = {}) => Consumed = Len(cbor)

\* ------------------------------------------------------------------------
\* The JSON writer driven event by event, as the tests of
\* json_std_string_writer_test.cc drive it.
\* ------------------------------------------------------------------------

\* The number of events a test sends.
MaxWriterEvents == 4

\* "msg1"; the characters with a two character escape, and '/'; the ends of
\* the printable range, their neighbours and NUL; an unpaired low surrogate,
\* a surrogate pair, U+ABCD, U+FFFF, U+1234 and the ends of the one byte
\* range.
WriterStrings ==
  {<<109, 115, 103, 49>>,
   <<34, 92, 8, 12, 10, 13, 9, 47>>,
   <<32, 126, 31, 127, 0, 97>>,
   <<57102, 55356, 57102, 43981, 65535, 4660, 255, 256>>}

WriterEvents ==
  {ObjectBeginEvent, ObjectEndEvent, ArrayBeginEvent, ArrayEndEvent,
   DoubleEvent(DoublePi), IntEvent(-1), IntEvent(Int32Min), BoolEvent(TRUE),
   NullEvent, ErrorEvent(DefaultStatus)}
    \cup {StringEvent(chars) : chars \in WriterStrings}

\* writer->Handle...(): one call on the writer that its asserts allow.
WriterCall ==
  /\ Len(json_out) < MaxWriterEvents
  /\ \E ev \in WriterEvents :
       /\ WriterAsserts(writer, ev)
       /\ json_out' = Append(json_out, ev)
       /\ writer' = WriterHandle(writer, ev)
  /\ UNCHANGED <<cbor, cbor_pc, cbor_stack, internal_bytes, codecVars, jsonVars>>

WriterNext == WriterCall

WriterInit == CodecIdle /\ JsonIdle /\ CborIdle

SpecWriter == WriterInit /\ [][WriterNext]_vars

\* ------------------------------------------------------------------------
\* The JSON-to-binary encoder driven event by event, as a client that is
\* not the JSON parser drives it.
\* ------------------------------------------------------------------------

\* The number of events a client sends.
MaxEncoderEvents == 3

\* The events of JsonToCborConversion.Encoding, one of each kind, with a
\* surrogate pair in a string and the extremes of the integers.
EncoderEvents ==
  {ObjectBeginEvent, ObjectEndEvent, ArrayBeginEvent, ArrayEndEvent,
   StringEvent(<<>>), StringEvent(<<55356, 57102>>), DoubleEvent(DoublePi),
   IntEvent(1), IntEvent(-1), IntEvent(Int32Min), BoolEvent(TRUE),
   BoolEvent(FALSE), NullEvent,
   ErrorEvent([error |-> JSON_PARSER_STRING_LITERAL_EXPECTED, pos |-> 3])}

\* encoder->Handle...(): one call on the encoder.
EncoderCall ==
  /\ json_pc = "idle"
  /\ Len(log) < MaxEncoderEvents
  /\ \E ev \in EncoderEvents :
       /\ log' = Append(log, ev)
       /\ encoder' = EncoderHandle(encoder, ev)
  /\ UNCHANGED <<json, json_pc, json_stack, start, error_, codecVars, cborVars>>

EncoderNext == EncoderCall

EncoderInit == CodecIdle /\ JsonIdle /\ CborIdle

SpecEncoder == EncoderInit /\ [][EncoderNext]_vars

\* ------------------------------------------------------------------------
\* Claims about the encoder driven by a client (SpecEncoder).
\* ------------------------------------------------------------------------

\* The bytes one event stands for in the binary encoding.
EventBytes(ev) ==
  CASE Kind(ev) = "ObjectBegin" -> <<191>>
    [] Kind(ev) = "ArrayBegin" -> <<159>>
    [] Kind(ev) \in {"ObjectEnd", "ArrayEnd"} -> <<255>>
    [] Kind(ev) = "String" -> EncodeUTF16String(Arg(ev), <<>>)
    [] Kind(ev) = "Int" -> EncodeSigned(Arg(ev)[1], <<>>)
    [] Kind(ev) = "Double" -> EncodeDouble(Arg(ev), <<>>)
    [] Kind(ev) = "Bool" -> IF Arg(ev)[1] = 1 THEN <<245>> ELSE <<244>>
    [] Kind(ev) = "Null" -> <<246>>

\* The bytes of the first k events, in event order.
RECURSIVE EventsBytes(_, _)
EventsBytes(events, k) ==
  IF k = 0 THEN <<>> ELSE EventsBytes(events, k - 1) \o EventBytes(events[k])

\* C15: as long as no Error event has come, the encoder's output is the
\* concatenation, in event order, of the bytes each event stands for.
C15_EncoderIsTransducer ==
  NoErrorEvent(log) => encoder.out_ = EventsBytes(log, Len(log))

\* A map start, a string with a surrogate pair and -1 have been encoded.
C15_Witness ==
  /\ log = <<ObjectBeginEvent, StringEvent(<<55356, 57102>>), IntEvent(-1)>>
  /\ encoder.out_ = <<191, 68, 60, 216, 14, 223, 32>>

\* ------------------------------------------------------------------------
\* Claims about parseJSONChars, the encoder and the round trip (Spec).
\* ------------------------------------------------------------------------

\* C1 (as claimed): for a document with an object at the top that
\* parseJSONChars accepts without an error event, ParseBinary delivers for
\* the encoder's bytes exactly the events parseJSONChars delivered.
C1_SameEventsFromCbor ==
  (cbor_pc = "done" /\ Kind(log[1]) = "ObjectBegin") => json_out = log

\* C2 (as claimed): parseJSONChars delivers at most one error event, and no
\* event after it: an Error event is the last of the log.
C2_ErrorIsLast ==
  \A i \in 1..Len(log) : Kind(log[i]) = "Error" => i = Len(log)

\* C3 (as claimed): when the parse returns after an Error event, the
\* encoder's output buffer is empty.
C3_BufferEmptyAfterError ==
  (json_pc = "done" /\ ~NoErrorEvent(log)) => encoder.out_ = <<>>

\* The containers open after the first i events.
OpenAfter(events, i) ==
  Cardinality({j \in 1..i : Kind(events[j]) \in {"ArrayBegin", "ObjectBegin"}})
    - Cardinality({j \in 1..i : Kind(events[j]) \in {"ArrayEnd", "ObjectEnd"}})

\* Some container of the document is nested deeper than limit.
NestedDeeperThan(events, limit) ==
  /\ Len(events) > limit
  /\ \E i \in (limit + 1)..Len(events) :
       /\ Kind(events[i]) \in {"ArrayBegin", "ObjectBegin"}
       /\ OpenAfter(events, i) > limit

\* C6 (as claimed): a parse of an input whose containers are nested more
\* than 1000 deep does not complete: it delivers an error event.
C6_DeepInputFails ==
  (json_pc = "done" /\ NestedDeeperThan(log, kStackLimitJson)) => ~NoErrorEvent(log)

\* C8 (as claimed): an error event carries an error kind and the offset of
\* the offending token:  {JSON_PARSER_STRING_LITERAL_EXPECTED, 16} for the
\* unterminated key and {JSON_PARSER_COMMA_OR_OBJECT_END_EXPECTED, 14} for
\* the colon after a key/value pair.
C8_ErrorKindAndOffset ==
  /\ (json_pc = "done" /\ json = DocUnterminatedKey) =>
       LastEvent(log) = ErrorEvent([error |-> JSON_PARSER_STRING_LITERAL_EXPECTED,
                                    pos |-> 16])
  /\ (json_pc = "done" /\ json = DocColonAfterPair) =>
       LastEvent(log) = ErrorEvent([error |-> JSON_PARSER_COMMA_OR_OBJECT_END_EXPECTED,
                                    pos |-> 14])

\* C23 (as claimed): null, true and false are recognised on an exact match
\* only: an input with a character of the literal wrong, the last one
\* included, gives no Null or Bool event and gives an error event.
C23_ConstantsMatchExactly ==
  (json_pc = "done" /\ json \in MisspeltConstants) =>
    /\ {i \in 1..Len(log) : Kind(log[i]) \in {"Null", "Bool"}} = {}
    /\ ~NoErrorEvent(log)

\* The event each number text is to give: Int for 1.0, 1e2, -0, 42 and the
\* ends of the int32 range, Double for the fractions and for the integers
\* next to the range on either side.
ExpectedNumberEvents ==
  { [text |-> <<49, 46, 48>>, event |-> <<"Int", 1>>],
    [text |-> <<49, 101, 50>>, event |-> <<"Int", 100>>],
    [text |-> <<45, 48>>, event |-> <<"Int", 0>>],
    [text |-> <<52, 50>>, event |-> <<"Int", 42>>],
    [text |-> <<45, 49>>, event |-> <<"Int", -1>>],
    [text |-> <<50, 49, 52, 55, 52, 56, 51, 54, 52, 55>>, event |-> <<"Int", 2147483647>>],
    [text |-> <<45, 50, 49, 52, 55, 52, 56, 51, 54, 52, 56>>,
     event |-> <<"Int", -2147483647 - 1>>],
    [text |-> <<48, 46, 53>>, event |-> <<"Double">> \o DoubleHalf],
    [text |-> <<45, 49, 46, 53>>, event |-> <<"Double">> \o DoubleMinusOneAndHalf],
    [text |-> <<51, 46, 49, 52, 49, 53>>, event |-> <<"Double">> \o DoublePi],
    [text |-> <<50, 49, 52, 55, 52, 56, 51, 54, 52, 56>>,
     event |-> <<"Double">> \o DoubleTwoTo31],
    [text |-> <<45, 50, 49, 52, 55, 52, 56, 51, 54, 52, 57>>,
     event |-> <<"Double">> \o DoubleBelowInt32Min],
    [text |-> <<50, 49, 52, 55, 52, 56, 51, 54, 52, 55, 46, 53>>,
     event |-> <<"Double">> \o DoubleInt32MaxAndHalf] }

\* The double of a Double event is a whole number within the int32 range.
\* Such a double has an exponent of at most 30 and no fraction bit below
\* the units, or is zero or -2^31.
DoubleIsInt32(d) ==
  \/ d \in {Zero64, <<0, 0, 0, 0, 0, 0, 0, 128>>, DoubleInt32Min}
  \/ \E e \in 0..30 :
       /\ DoubleExponent(d) = 1023 + e
       /\ LowFraction(d) = 0
       /\ Top31(d) % Pow2(30 - e) = 0

\* C24: a number token gives one event, Int(v) when the value v of the token
\* is within the int32 range and whole, Double(v) otherwise; no parse
\* delivers a Double whose value is a whole number of the int32 range.
C24_IntOrDouble ==
  /\ \A n \in ExpectedNumberEvents :
       (json_pc = "done" /\ json = n.text /\ NoErrorEvent(log)) => log = <<n.event>>
  /\ \A i \in 1..Len(log) :
       Kind(log[i]) = "Double" => ~DoubleIsInt32(Arg(log[i]))

\* 1e2 has been parsed and has given Int(100).
C24_Witness ==
  /\ json_pc = "done"
  /\ json = <<49, 101, 50>>
  /\ log = <<<<"Int", 100>>>>

\* The begin events and the end events among events.
BeginEvents(events) ==
  {i \in 1..Len(events) : Kind(events[i]) \in {"ArrayBegin", "ObjectBegin"}}

EndEvents(events) ==
  {i \in 1..Len(events) : Kind(events[i]) \in {"ArrayEnd", "ObjectEnd"}}

\* The parser is inside a container, and what is left of the input is its
\* end, or a comma with the closing bracket of the container after it.
AtOpenEnd ==
  /\ json_pc \in {"loop", "value", "next"}
  /\ ParseToken(json, start).token_start = Len(json)

AtTrailingComma ==
  /\ json_pc = "next"
  /\ ParseToken(json, start).token = "ListSeparator"
  /\ ParseToken(json, ParseToken(json, start).token_end).token = EndToken(TopCall)

\* C25: a comma directly before the closing bracket of its container, and
\* an input that ends with a container open, each give an error event and
\* no end event for that container: the step that meets either ends the
\* parse with an error event and without an end event, and the sampled
\* documents of both kinds end with an error event and a container open.
C25_TrailingCommaAndOpenEnd ==
  /\ []((json_pc = "done" /\ json \in TrailingCommaDocuments \cup UnterminatedDocuments) =>
         /\ ~NoErrorEvent(log)
         /\ Cardinality(EndEvents(log)) < Cardinality(BeginEvents(log)))
  /\ [][(AtOpenEnd \/ AtTrailingComma) =>
         /\ json_pc' = "done"
         /\ ~NoErrorEvent(log')
         /\ EndEvents(log') = EndEvents(log)]_vars

\* [[1,]] has been parsed up to the comma, and no further.
C25_Witness ==
  /\ json_pc = "done"
  /\ json = <<91, 91, 49, 44, 93, 93>>
  /\ log = <<ArrayBeginEvent, ArrayBeginEvent, <<"Int", 1>>, JsonErrorEvent>>

\* ParseBinary has read the bytes the encoder wrote, to its end.
CborReadBack == cbor_pc = "done" /\ cbor = encoder.out_

\* C30 (as claimed): for every input that parseJSONChars accepts without an
\* error event, a scalar or an array at the top included, the bytes of the
\* encoder begin with 0xbf and ParseBinary accepts them without an error
\* event.
C30_EncodedIsAccepted ==
  (json_pc = "done" /\ NoErrorEvent(log)) =>
    /\ encoder.out_ # <<>> /\ encoder.out_[1] = kInitialByteIndefiniteLengthMap
    /\ CborReadBack => NoErrorEvent(json_out)

\* C30 (amended): the same for every accepted input whose top-level value is
\* an object.
C30_EncodedObjectIsAccepted ==
  (json_pc = "done" /\ NoErrorEvent(log) /\ Kind(log[1]) = "ObjectBegin") =>
    /\ encoder.out_[1] = kInitialByteIndefiniteLengthMap
    /\ CborReadBack => NoErrorEvent(json_out)

\* {"1":1} has been encoded and the bytes read back without an error.
C30_Witness ==
  /\ json = DocNumberInObject
  /\ json_pc = "done"
  /\ NoErrorEvent(log)
  /\ CborReadBack
  /\ encoder.out_ = <<191, 66, 49, 0, 1, 255>>
  /\ json_out = log

\* ------------------------------------------------------------------------
\* Claims about the JSON writer (SpecWriter).
\* ------------------------------------------------------------------------

\* ------------------------------------------------------------------------
\* The writer's text parsed again: a client hands the string the writer has
\* filled to parseJSONChars.
\* ------------------------------------------------------------------------

\* parseJSONChars(deps, span<uint8_t>(out), handler) once the writer has
\* written one top-level value.
ParseWrittenJson ==
  /\ json_pc = "idle"
  /\ ~writer.error_
  /\ Len(writer.state_) = 1
  /\ writer.state_[1].size_ = 1
  /\ json' = writer.out_
  /\ json_pc' = "Parse"
  /\ UNCHANGED <<json_stack, start, error_, log, encoder, codecVars, cborVars>>

RoundTripNext ==
  \/ WriterCall
  \/ ParseWrittenJson
  \/ JsonParser_Parse
  \/ JsonParser_ContainerEnd
  \/ JsonParser_ArrayElement
  \/ JsonParser_ObjectKey
  \/ JsonParser_ObjectValue
  \/ JsonParser_Separator

RoundTripInit == CodecIdle /\ JsonIdle /\ CborIdle

SpecRoundTrip == RoundTripInit /\ [][RoundTripNext]_vars

\* ------------------------------------------------------------------------
\* Claims about the writer's text parsed again (SpecRoundTrip).
\* ------------------------------------------------------------------------

\* C18: parseJSONChars on the text the writer has written for one String
\* event delivers exactly one event, that String event.
C18_StringRoundTrip ==
  (json_pc = "done" /\ Len(json_out) = 1 /\ Kind(json_out[1]) = "String") =>
    log = json_out

\* The string with an unpaired surrogate, a surrogate pair and code units
\* beyond one byte has come back from the parser.
C18_Witness ==
  /\ json_pc = "done"
  /\ json_out = <<StringEvent(<<57102, 55356, 57102, 43981, 65535, 4660, 255, 256>>)>>
  /\ log = json_out

\* ------------------------------------------------------------------------
\* Claims about the writer's text (SpecWriter).
\* ------------------------------------------------------------------------

\* "0123456789abcdef"
LowercaseHexDigits ==
  <<48, 49, 50, 51, 52, 53, 54, 55, 56, 57, 97, 98, 99, 100, 101, 102>>

\* What a code unit of a string is written as: a two character escape, the
\* character itself if it is printable ASCII, else \u and four lowercase hex
\* digits, most significant first.
EscapedText(c) ==
  CASE c = 34 -> <<92, 34>>
    [] c = 92 -> <<92, 92>>
    [] c = 8 -> <<92, 98>>
    [] c = 12 -> <<92, 102>>
    [] c = 10 -> <<92, 110>>
    [] c = 13 -> <<92, 114>>
    [] c = 9 -> <<92, 116>>
    [] c \in 32..126 \ {34, 92} -> <<c>>
    [] OTHER -> <<92, 117, LowercaseHexDigits[(c \div 4096) + 1],
                  LowercaseHexDigits[((c \div 256) % 16) + 1],
                  LowercaseHexDigits[((c \div 16) % 16) + 1],
                  LowercaseHexDigits[(c % 16) + 1]>>

\* The string literal for the code units |chars|.
RECURSIVE EscapedTexts(_, _)
EscapedTexts(chars, k) ==
  IF k = 0 THEN <<>> ELSE EscapedTexts(chars, k - 1) \o EscapedText(chars[k])

StringLiteralText(chars) == <<34>> \o EscapedTexts(chars, Len(chars)) \o <<34>>

\* The text of one event that is no Error.
EventText(ev) ==
  CASE Kind(ev) = "ObjectBegin" -> <<123>>
    [] Kind(ev) = "ObjectEnd" -> <<125>>
    [] Kind(ev) = "ArrayBegin" -> <<91>>
    [] Kind(ev) = "ArrayEnd" -> <<93>>
    [] Kind(ev) = "String" -> StringLiteralText(Arg(ev))
    [] Kind(ev) = "Double" -> DToStr(Arg(ev))
    [] Kind(ev) = "Int" -> to_string(Arg(ev)[1])
    [] Kind(ev) = "Bool" -> IF Arg(ev)[1] = 1 THEN kTrueString ELSE kFalseString
    [] Kind(ev) = "Null" -> kNullString

\* A frame is [kind, count]: NONE, OBJECT or ARRAY and the number of keys
\* and values it has had.  The delimiter before the next element of it.
Delimiter(frame) ==
  IF frame.count = 0 THEN <<>>
  ELSE IF frame.kind = "OBJECT" /\ frame.count % 2 = 1 THEN <<58>>
  ELSE <<44>>

\* The event ev keeps a sequence well-formed whose innermost frame is top:
\* one value at the top level, keys that are strings, an end that matches
\* its begin and does not follow a key.
EventFits(top, ev) ==
  CASE Kind(ev) = "Error" -> FALSE
    [] Kind(ev) = "ObjectEnd" -> top.kind = "OBJECT" /\ top.count % 2 = 0
    [] Kind(ev) = "ArrayEnd" -> top.kind = "ARRAY"
    [] OTHER -> /\ top.kind = "NONE" => top.count = 0
                /\ (top.kind = "OBJECT" /\ top.count % 2 = 0) => Kind(ev) = "String"

\* r, the rendering [ok, frames, text] of a sequence of events, after one
\* more event.
RenderedWith(r, ev) ==
  IF ~r.ok \/ ~EventFits(r.frames[Len(r.frames)], ev)
    THEN [ok |-> FALSE, frames |-> <<>>, text |-> <<>>]
  ELSE IF Kind(ev) \in {"ObjectEnd", "ArrayEnd"}
    THEN [ok |-> TRUE, frames |-> SubSeq(r.frames, 1, Len(r.frames) - 1),
          text |-> r.text \o EventText(ev)]
  ELSE [ok |-> TRUE,
        frames |-> [r.frames EXCEPT ![Len(r.frames)].count = @ + 1]
                     \o (IF Kind(ev) = "ObjectBegin"
                           THEN <<[kind |-> "OBJECT", count |-> 0]>>
                         ELSE IF Kind(ev) = "ArrayBegin"
                           THEN <<[kind |-> "ARRAY", count |-> 0]>>
                         ELSE <<>>),
        text |-> r.text \o Delimiter(r.frames[Len(r.frames)]) \o EventText(ev)]

\* The rendering of the first k events: ok says that they begin a
\* well-formed sequence, text is the tokens with the delimiters of the rule
\* and nothing else between them.
RECURSIVE Rendered(_, _)
Rendered(events, k) ==
  IF k = 0
    THEN [ok |-> TRUE, frames |-> <<[kind |-> "NONE", count |-> 0]>>, text |-> <<>>]
  ELSE RenderedWith(Rendered(events, k - 1), events[k])

\* C16: for the events of a well-formed sequence the writer's output is the
\* tokens in order, with nothing before the first element of a frame, ':'
\* before an element of an OBJECT frame whose count is odd and ',' before
\* any other element; no whitespace and no delimiter before a closing
\* bracket.
C16_DelimiterRule ==
  Rendered(json_out, Len(json_out)).ok =>
    writer.out_ = Rendered(json_out, Len(json_out)).text

\* {"msg1":[null is being written: a key, a colon, a first element.
C16_Witness ==
  /\ Len(json_out) = 4
  /\ writer.out_ = <<123, 34, 109, 115, 103, 49, 34, 58, 91, 110, 117, 108, 108>>

\* C17: a String event is written as '"', for each code unit its two
\* character escape, itself if it is printable ASCII, or \u and four
\* lowercase hex digits, most significant nibble first, and '"'.
C17_StringEscapes ==
  (Len(json_out) = 1 /\ Kind(json_out[1]) = "String") =>
    writer.out_ = StringLiteralText(Arg(json_out[1]))

\* The string with an unpaired surrogate and a surrogate pair has been
\* written: it begins "\udf0e\ud83c\udf0e.
C17_Witness ==
  /\ json_out = <<StringEvent(<<57102, 55356, 57102, 43981, 65535, 4660, 255, 256>>)>>
  /\ SubSeq(writer.out_, 1, 19) =
       <<34, 92, 117, 100, 102, 48, 101, 92, 117, 100, 56, 51, 99,
         92, 117, 100, 102, 48, 101>>
  /\ Len(writer.out_) = 50

\* C4 (as claimed): once the writer has received an Error event its output
\* string is empty, and stays so.
C4_ErrorClearsOutput == writer.error_ => writer.out_ = <<>>

\* ------------------------------------------------------------------------
\* The order and the nesting of the events of parseJSONChars (Spec).
\* ------------------------------------------------------------------------

\* The longest sequence of events whose nesting is followed event by event.
MaxCheckedEvents == 16

\* The events delivered before the first error event.
BeforeError(events) ==
  SubSeq(events, 1, Cardinality({i \in 1..Len(events) :
                                  \A j \in 1..i : Kind(events[j]) # "Error"}))

IsPrefix(s, t) == Len(s) <= Len(t) /\ s = SubSeq(t, 1, Len(s))

\* Inputs without whitespace, comments or escapes and with numbers written
\* as to_string writes them: their text is that of their tokens in order.
PlainInputs == UNION {[1..n -> JsonAlphabet] : n \in 0..MaxJsonLen} \cup JsonObjects

\* C26: the events delivered before any error event begin a well-formed
\* sequence (nesting with matching kinds, in an object a String key and then
\* one value) and come in the order of the document, their text being the
\* beginning of the input; without an error event the sequence is complete:
\* one top-level value, every container closed, the whole input.
C26_WellFormedPrefix ==
  Len(log) <= MaxCheckedEvents =>
    LET r == Rendered(BeforeError(log), Len(BeforeError(log)))
    IN  /\ r.ok
        /\ json \in PlainInputs => IsPrefix(r.text, json)
        /\ (json_pc = "done" /\ NoErrorEvent(log)) =>
             /\ r.frames = <<[kind |-> "NONE", count |-> 1]>>
             /\ json \in PlainInputs => r.text = json

\* {"":[],"":1} has been parsed: two keys, each with its value.
C26_Witness ==
  /\ json_pc = "done"
  /\ json = DocArrayThenPair
  /\ NoErrorEvent(log)
  /\ Len(log) = 7

=============================================================================
